---- MODULE Spec2Model ----
(***************************************************************************)
(* A model of epson-proxy: the resilient Printer (withRetry and the        *)
(* operations built on it), the transport writers, the request handler's   *)
(* dispatch loop and the EPOS XML instruction parser.                      *)
(*                                                                         *)
(* The repository snapshot holds two generations of printer.go and of the  *)
(* writers.  The model follows the generation the test-suite compiles      *)
(* against (the Printer with a retryDelay field, src/main.go 515-801, and  *)
(* the writers of src/unnamed/part_002 1-157).                             *)
(***************************************************************************)
EXTENDS Integers, Sequences, FiniteSets, TLC

(***************************************************************************)
(* Bounds of the model.                                                    *)
(***************************************************************************)
MaxBudget == 5      \* largest attempt budget of a direct withRetry call
MaxDoc == 2         \* longest document handed to the request handler
MaxTokens == 5      \* longest token stream handed to Parse
MaxDepth == 2       \* deepest nesting of elements in it
MaxDeviceCalls == 3  \* most opens, and most writes, a writer asks of the operating system

(***************************************************************************)
(* Program constants.                                                      *)
(***************************************************************************)
PrintGraphicsRetries == 3
KickDrawerRetries == 8
CutRetries == 8

CUT_CMD == <<29, 86, 0>>
PRINT_RASTER_CMD == <<29, 118, 48, 0>>
FEED_N_CMD(n) == <<27, 100, n % 256>>
\* mutant: the pulse goes to the drawer's other pin
KICK_CMD_OtherPin == <<27, 112, 1, 25, 25>>
KICK_CMD == <<27, 112, 0, 25, 25>>

\* Go's integer division truncates toward zero (b > 0 here).
GoDiv(a, b) == IF a >= 0 THEN a \div b ELSE -((-a) \div b)

\* byte k (0 the lowest) of the two's complement form of an int
ByteOf(a, k) == (a \div (256 ^ k)) % 256

\* a * b of two Go ints: the product wraps at the width of int, which the build
\* target sets to 32 or to 64 bits.  The model takes the 32 bits of a 386 or arm
\* build, the width TLC's integers have; at 64 bits the same products wrap at
\* 2^64.  The product is made byte by byte, and directly where it cannot wrap.
Mul(a, b) ==
    IF a > -32768 /\ a < 32768 /\ b > -32768 /\ b < 32768 THEN a * b
    ELSE LET c0 == ByteOf(a, 0) * ByteOf(b, 0)
             c1 == ByteOf(a, 0) * ByteOf(b, 1) + ByteOf(a, 1) * ByteOf(b, 0) + (c0 \div 256)
             c2 == ByteOf(a, 0) * ByteOf(b, 2) + ByteOf(a, 1) * ByteOf(b, 1)
                   + ByteOf(a, 2) * ByteOf(b, 0) + (c1 \div 256)
             c3 == ByteOf(a, 0) * ByteOf(b, 3) + ByteOf(a, 1) * ByteOf(b, 2)
                   + ByteOf(a, 2) * ByteOf(b, 1) + ByteOf(a, 3) * ByteOf(b, 0) + (c2 \div 256)
             top == c3 % 256
         IN  (c0 % 256) + 256 * (c1 % 256) + 65536 * (c2 % 256)
             + 16777216 * (IF top >= 128 THEN top - 256 ELSE top)

\* n zero bytes: make([]byte, n)
Zeros(n) == [k \in 1..n |-> 0]

(***************************************************************************)
(* Errors.  kind: which failure; wrap: the fmt.Errorf wrapper Cut adds;    *)
(* at: the number of the attempt (1-based) in which it was produced.       *)
(***************************************************************************)
Err(kind, wrap, at) == [kind |-> kind, wrap |-> wrap, at |-> at]
NoErr == Err("nil", "none", 0)

Procs == {1, 2}     \* goroutines that may call into the one Printer

VARIABLES
    receipt_width,  \* Printer.receipt_width
    connection,     \* Printer.connection: the Writable in use
    writer,         \* UsbWriter.writer / TcpWriter.conn: "nil" or "open"
    pc,             \* per goroutine: where it stands in the operation
    op,             \* per goroutine: the operation in progress
    maxRetries,     \* withRetry's maxRetries
    i,              \* withRetry's loop variable
    err,            \* withRetry's err / the operation's returned error
    result,         \* withRetry's result
    buf,            \* PrintGraphics' command buffer
    req,            \* per goroutine: the request handler's document and position
    \* history variables, reset when an operation is called
    recording,      \* the per-call history below is being recorded
    args,           \* history: the arguments the running operation was called with
    fnCalls,        \* invocations of fn
    fnFails,        \* invocations of fn that returned an error
    lastFn,         \* what the latest invocation of fn returned: [err, val]
    closeCalls,     \* p.connection.Close() calls made by withRetry
    openCalls,      \* p.connection.Open() calls made by withRetry
    closeErrSeen,   \* some Close of this call returned an error
    openErrSeen,    \* some Open of this call returned an error
    attemptLog,     \* the WriteRaw calls of the current attempt: [data, ok]
    writeCalls,     \* WriteRaw calls of this call
    okWrites,       \* WriteRaw calls of this call that returned nil
    touched,        \* the operation in progress has used the transport
    interrupted,    \* another goroutine used the transport since then
    interleaved,    \* an operation resumed on the transport after an interruption
    device,         \* history: what the writer asked of the operating system
    \* Parse
    parseRet,       \* Parse's position and what it returned: [st, err, doc]
    xmlStack,       \* xml.Decoder: the elements that are open
    tokenCount,     \* tokens read so far
    epos,           \* the EposPrint being built: [XMLName, Instructions]
    currentImage,   \* *ImageDecoded, or nil
    inImage,        \* an image element is open
    recognized,     \* history: the kinds of the recognized elements read so far (a pulse
                    \* or cut at its start tag, an image at its end tag)
    fault,          \* history: what was wrong with the document, if anything was
    imageLog,       \* history: the attributes of the latest vendor image start tag and
                    \* the character data read since, inside a vendor image element
    elementLog,     \* history: a pulse, cut or image element was started in the vendor's
                    \* name space (vendor), outside of it (foreign)
    \* main and the clients of its HTTP server
    server,         \* the process: [st, code, argv]
    exchange,       \* the latest request and its response: [st, method, origin, status,
                    \* allowOrigin]
    \* the writer's methods, statement by statement
    mu,             \* UsbWriter.mu / TcpWriter.mu: 0, or the goroutine that holds it
    call            \* per goroutine: the method it is in, where it stands in it, what
                    \* the method returned: [m, at, ret]

printerVars == <<receipt_width, connection, writer, pc, op, maxRetries, i, err, result, buf, req>>
ghostVars == <<recording, args, fnCalls, fnFails, lastFn, closeCalls, openCalls, closeErrSeen,
               openErrSeen, attemptLog, writeCalls, okWrites,
               touched, interrupted, interleaved, device>>
parserVars == <<parseRet, xmlStack, tokenCount, epos, currentImage, inImage, recognized, fault,
                imageLog, elementLog>>
httpVars == <<server, exchange>>
lockVars == <<mu, call>>
vars == <<printerVars, ghostVars, parserVars, httpVars, lockVars>>

(***************************************************************************)
(* Transports.  A Printer holds a Writable.  UsbWriter and TcpWriter have  *)
(* the same shape: a handle that is nil or open, and three methods that    *)
(* each run under the writer's mutex, so each is one atomic step; the      *)
(* device decides whether a write, an open or a close succeeds.  The test  *)
(* suite's MockWritable returns the errors it was built with.  e is the    *)
(* kind of the error returned ("nil": none).                               *)
(***************************************************************************)
\* mutant: a write on a writer that is not open is taken for delivered
WriterWriteRaw_IgnoresNoHandle(e) == e \in {"nil", "write"}

WriterWriteRaw(e) ==
    IF writer = "nil" THEN e = "noconn" ELSE e \in {"nil", "write"}

\* mutant: Open on a writer that is open reports an error
WriterOpen_RefusesOpenWriter(e) ==
    IF writer # "nil"
    THEN e = "open" /\ writer' = writer
    ELSE \/ e = "nil" /\ writer' = "open"
         \/ e = "open" /\ writer' = "nil"

\* mutant: Open returns without keeping the handle it opened
WriterOpen_DropsHandle(e) ==
    IF writer # "nil"
    THEN e = "nil" /\ writer' = writer
    ELSE e \in {"nil", "open"} /\ writer' = "nil"

WriterOpen(e) ==
    IF writer # "nil"
    THEN e = "nil" /\ writer' = writer
    ELSE \/ e = "nil" /\ writer' = "open"
         \/ e = "open" /\ writer' = "nil"

\* mutant: a handle whose close failed is kept
WriterClose_KeepsHandleOnError(e) ==
    IF writer = "nil"
    THEN e = "nil" /\ writer' = "nil"
    ELSE \/ e = "nil" /\ writer' = "nil"
         \/ e = "close" /\ writer' = writer

WriterClose(e) ==
    IF writer = "nil"
    THEN e = "nil" /\ writer' = "nil"
    ELSE e \in {"nil", "close"} /\ writer' = "nil"

MockWriteRaw(e) == e = IF connection.WriteRawError THEN "write" ELSE "nil"

MockOpen(e) ==
    /\ e = IF connection.OpenError THEN "open" ELSE "nil"
    /\ UNCHANGED writer

MockClose(e) ==
    /\ e = IF connection.CloseError THEN "close" ELSE "nil"
    /\ UNCHANGED writer

\* the calls through the Writable interface
WriteRaw(e) == IF connection.type = "mock" THEN MockWriteRaw(e) ELSE WriterWriteRaw(e)
Open(e) == IF connection.type = "mock" THEN MockOpen(e) ELSE WriterOpen(e)
Close(e) == IF connection.type = "mock" THEN MockClose(e) ELSE WriterClose(e)

Writer == [type |-> "writer", WriteRawError |-> FALSE, OpenError |-> FALSE,
           CloseError |-> FALSE]
Mocks == [type : {"mock"}, WriteRawError : BOOLEAN, OpenError : BOOLEAN,
          CloseError : BOOLEAN]
\* a Printer built without a transport: connection == nil
NilConnection == [type |-> "nil", WriteRawError |-> FALSE, OpenError |-> FALSE,
                  CloseError |-> FALSE]

(***************************************************************************)
(* What a UsbWriter or TcpWriter asks of the operating system: dials are   *)
(* the os.OpenFile / net.Dial calls, closes the Close calls on a handle,   *)
(* writes the Write calls on a handle, handles the handles that are open,  *)
(* delivered the data of the writes that succeeded.  The log is kept by    *)
(* the specification of the writers' life cycle.                           *)
(***************************************************************************)
FreshDevice == [dials |-> 0, closes |-> 0, writes |-> 0, handles |-> 0, delivered |-> <<>>]

RealWriter == connection.type = "writer"

\* Open through the Writable interface, with the log of the device
DeviceOpen(e) ==
    /\ Open(e)
    /\ (RealWriter /\ writer = "nil") => device.dials < MaxDeviceCalls
    /\ device' = IF RealWriter /\ writer = "nil"
                 THEN [device EXCEPT !.dials = @ + 1,
                                     !.handles = IF e = "nil" THEN @ + 1 ELSE @]
                 ELSE device

\* Close through the Writable interface
DeviceClose(e) ==
    /\ Close(e)
    /\ device' = IF RealWriter /\ writer # "nil"
                 THEN [device EXCEPT !.closes = @ + 1, !.handles = @ - 1]
                 ELSE device

\* WriteRaw(data) through the Writable interface
DeviceWriteRaw(e, data) ==
    /\ WriteRaw(e)
    /\ (RealWriter /\ writer # "nil") => device.writes < MaxDeviceCalls
    /\ device' = IF RealWriter /\ writer # "nil"
                 THEN [device EXCEPT !.writes = @ + 1,
                                     !.delivered = IF e = "nil" THEN Append(@, data) ELSE @]
                 ELSE device
    /\ UNCHANGED writer

(***************************************************************************)
(* History bookkeeping.                                                    *)
(***************************************************************************)
\* a history variable changes only while the history is recorded
Hist(f, p, v) == IF recording THEN [f EXCEPT ![p] = v] ELSE f

InOp(q) == pc[q] \in {"fn", "feed", "close", "open"}

\* goroutine p makes a call on the transport
Touch(p) ==
    /\ touched' = [touched EXCEPT ![p] = TRUE]
    /\ interrupted' = [q \in Procs |->
                         IF q = p THEN interrupted[q]
                         ELSE interrupted[q] \/ (touched[q] /\ InOp(q))]
    /\ interleaved' = (interleaved \/ interrupted[p])

NoTouch == UNCHANGED <<touched, interrupted, interleaved>>

\* a WriteRaw of data by p that returned e; first: it opens a new attempt
LogWrite(p, data, e, first) ==
    /\ attemptLog' = Hist(attemptLog, p,
                          (IF first THEN <<>> ELSE attemptLog[p])
                              \o <<[data |-> data, ok |-> (e = "nil")]>>)
    /\ writeCalls' = Hist(writeCalls, p, writeCalls[p] + 1)
    /\ okWrites' = Hist(okWrites, p, IF e = "nil" THEN okWrites[p] + 1 ELSE okWrites[p])
    /\ Touch(p)

NoWrite == UNCHANGED <<attemptLog, writeCalls, okWrites>>

\* what an operation was called with: PrintGraphics with data, width, height
\* (and the Printer's receipt_width), center with d, w_b, h and p_w_b
Args(d, w, h, pw) == [d |-> d, w |-> w, h |-> h, pw |-> pw]
NoArgs == Args(<<>>, 0, 0, 0)
SetArgs(p, a) == args' = Hist(args, p, a)

ResetHistory(p) ==
    /\ fnCalls' = [fnCalls EXCEPT ![p] = 0]
    /\ fnFails' = [fnFails EXCEPT ![p] = 0]
    /\ lastFn' = [lastFn EXCEPT ![p] = [err |-> NoErr, val |-> 0]]
    /\ closeCalls' = [closeCalls EXCEPT ![p] = 0]
    /\ openCalls' = [openCalls EXCEPT ![p] = 0]
    /\ closeErrSeen' = [closeErrSeen EXCEPT ![p] = FALSE]
    /\ openErrSeen' = [openErrSeen EXCEPT ![p] = FALSE]
    /\ attemptLog' = [attemptLog EXCEPT ![p] = <<>>]
    /\ writeCalls' = [writeCalls EXCEPT ![p] = 0]
    /\ okWrites' = [okWrites EXCEPT ![p] = 0]
    /\ touched' = [touched EXCEPT ![p] = FALSE]
    /\ interrupted' = [interrupted EXCEPT ![p] = FALSE]
    /\ UNCHANGED <<interleaved, recording, device>>
    /\ UNCHANGED <<parserVars, httpVars, lockVars>>

(***************************************************************************)
(* withRetry.                                                              *)
(***************************************************************************)
\* `for i := range maxRetries`: where the loop stands with loop variable k
LoopHead(n, k) == IF k < n THEN "fn" ELSE "ret"

\* withRetry(p, n, fn) is entered by operation o with command buffer b
EnterWithRetry(p, o, n, b) ==
    /\ op' = [op EXCEPT ![p] = o]
    /\ maxRetries' = [maxRetries EXCEPT ![p] = n]
    /\ i' = [i EXCEPT ![p] = 0]
    /\ err' = [err EXCEPT ![p] = NoErr]
    /\ result' = [result EXCEPT ![p] = 0]
    /\ buf' = [buf EXCEPT ![p] = b]
    /\ pc' = [pc EXCEPT ![p] = LoopHead(n, 0)]
    /\ ResetHistory(p)
    /\ UNCHANGED <<receipt_width, connection, writer>>

\* mutant: a success does not leave the loop
FnReturned_NoEarlyReturn(p, e, v) ==
    /\ result' = [result EXCEPT ![p] = v]
    /\ err' = [err EXCEPT ![p] = e]
    /\ lastFn' = Hist(lastFn, p, [err |-> e, val |-> v])
    /\ fnFails' = Hist(fnFails, p, IF e = NoErr THEN fnFails[p] ELSE fnFails[p] + 1)
    /\ pc' = [pc EXCEPT ![p] = "close"]

\* mutant: the first error observed is kept
FnReturned_KeepsFirstErr(p, e, v) ==
    /\ result' = [result EXCEPT ![p] = v]
    /\ err' = [err EXCEPT ![p] = IF e = NoErr \/ @ = NoErr THEN e ELSE @]
    /\ lastFn' = Hist(lastFn, p, [err |-> e, val |-> v])
    /\ fnFails' = Hist(fnFails, p, IF e = NoErr THEN fnFails[p] ELSE fnFails[p] + 1)
    /\ pc' = [pc EXCEPT ![p] = IF e = NoErr THEN "ret" ELSE "close"]

\* `result, err = fn(); if err == nil { return result, nil }`
FnReturned(p, e, v) ==
    /\ result' = [result EXCEPT ![p] = v]
    /\ err' = [err EXCEPT ![p] = e]
    /\ lastFn' = Hist(lastFn, p, [err |-> e, val |-> v])
    /\ fnFails' = Hist(fnFails, p, IF e = NoErr THEN fnFails[p] ELSE fnFails[p] + 1)
    /\ pc' = [pc EXCEPT ![p] = IF e = NoErr THEN "ret" ELSE "close"]

\* mutant: the transport is reopened after the final failure too
ShouldReopen_Always(k, n) == TRUE

\* `if i < maxRetries-1`: the transport is reopened after this failure
ShouldReopen(k, n) == k < n - 1

\* `if p.connection != nil { p.connection.Close() }`, the close error only logged
RetryClose(p) ==
    /\ pc[p] = "close"
    /\ \E e \in {"nil", "close"} :
          /\ Close(e)
          /\ closeErrSeen' = Hist(closeErrSeen, p, closeErrSeen[p] \/ (e # "nil"))
    /\ closeCalls' = Hist(closeCalls, p, closeCalls[p] + 1)
    /\ IF ShouldReopen(i[p], maxRetries[p])
       THEN /\ pc' = [pc EXCEPT ![p] = "open"]
            /\ UNCHANGED i
       ELSE /\ pc' = [pc EXCEPT ![p] = LoopHead(maxRetries[p], i[p] + 1)]
            /\ i' = [i EXCEPT ![p] = @ + 1]
    /\ Touch(p)
    /\ NoWrite
    /\ UNCHANGED <<receipt_width, connection, op, maxRetries, err, result, buf, req,
                   recording, device, args, fnCalls, fnFails, lastFn, openCalls, openErrSeen,
                   parserVars, httpVars, lockVars>>

\* mutant: a failed reopen ends the loop
RetryOpen_AbortsOnError(p) ==
    /\ pc[p] = "open"
    /\ \E e \in {"nil", "open"} :
          /\ Open(e)
          /\ openErrSeen' = Hist(openErrSeen, p, openErrSeen[p] \/ (e # "nil"))
          /\ err' = [err EXCEPT ![p] =
                       IF e # "nil" THEN Err(e, "none", i[p] + 1) ELSE @]
          /\ pc' = [pc EXCEPT ![p] =
                      IF e # "nil" THEN "ret" ELSE LoopHead(maxRetries[p], i[p] + 1)]
    /\ openCalls' = Hist(openCalls, p, openCalls[p] + 1)
    /\ i' = [i EXCEPT ![p] = @ + 1]
    /\ Touch(p)
    /\ NoWrite
    /\ UNCHANGED <<receipt_width, connection, op, maxRetries, result, buf, req,
                   recording, device, args, fnCalls, fnFails, lastFn, closeCalls, closeErrSeen,
                   parserVars, httpVars, lockVars>>

\* `time.Sleep(p.retryDelay); if openErr := p.connection.Open(); openErr != nil
\*  { err = openErr; continue }`
RetryOpen(p) ==
    /\ pc[p] = "open"
    /\ \E e \in {"nil", "open"} :
          /\ Open(e)
          /\ openErrSeen' = Hist(openErrSeen, p, openErrSeen[p] \/ (e # "nil"))
          /\ err' = [err EXCEPT ![p] =
                       IF e # "nil" THEN Err(e, "none", i[p] + 1) ELSE @]
    /\ openCalls' = Hist(openCalls, p, openCalls[p] + 1)
    /\ i' = [i EXCEPT ![p] = @ + 1]
    /\ pc' = [pc EXCEPT ![p] = LoopHead(maxRetries[p], i[p] + 1)]
    /\ Touch(p)
    /\ NoWrite
    /\ UNCHANGED <<receipt_width, connection, op, maxRetries, result, buf, req,
                   recording, device, args, fnCalls, fnFails, lastFn, closeCalls, closeErrSeen,
                   parserVars, httpVars, lockVars>>

(***************************************************************************)
(* The operations' fn closures.                                            *)
(***************************************************************************)
FnFrame(p) == UNCHANGED <<receipt_width, connection, writer, op, maxRetries, i, buf, req,
                          recording, device, args, closeCalls, openCalls, closeErrSeen, openErrSeen,
                          parserVars, httpVars, lockVars>>

\* a caller-supplied fn that does not use the transport: it fails or it
\* returns a value (here the number of the invocation that produced it)
GenericFn(p) ==
    /\ pc[p] = "fn" /\ op[p] = "fn"
    /\ fnCalls' = Hist(fnCalls, p, fnCalls[p] + 1)
    /\ \/ FnReturned(p, NoErr, fnCalls[p] + 1)
       \/ FnReturned(p, Err("fn", "none", fnCalls[p] + 1), 0)
    /\ attemptLog' = Hist(attemptLog, p, <<>>)
    /\ UNCHANGED <<writeCalls, okWrites>>
    /\ NoTouch
    /\ FnFrame(p)

\* KickDrawer's fn: one WriteRaw(KICK_CMD)
KickDrawerFn(p) ==
    /\ pc[p] = "fn" /\ op[p] = "KickDrawer"
    /\ fnCalls' = Hist(fnCalls, p, fnCalls[p] + 1)
    /\ \E e \in {"nil", "noconn", "write"} :
          /\ WriteRaw(e)
          /\ LogWrite(p, KICK_CMD, e, TRUE)
          /\ FnReturned(p, IF e = "nil" THEN NoErr
                           ELSE Err(e, "none", i[p] + 1), 0)
    /\ FnFrame(p)

\* PrintGraphics' fn: one WriteRaw(buf)
PrintGraphicsFn(p) ==
    /\ pc[p] = "fn" /\ op[p] = "PrintGraphics"
    /\ fnCalls' = Hist(fnCalls, p, fnCalls[p] + 1)
    /\ \E e \in {"nil", "noconn", "write"} :
          /\ WriteRaw(e)
          /\ LogWrite(p, buf[p], e, TRUE)
          /\ FnReturned(p, IF e = "nil" THEN NoErr
                           ELSE Err(e, "none", i[p] + 1), 0)
    /\ FnFrame(p)

\* mutant: the feed bytes are written first
CutFnCut_FeedFirst(p) ==
    /\ pc[p] = "fn" /\ op[p] = "Cut"
    /\ fnCalls' = Hist(fnCalls, p, fnCalls[p] + 1)
    /\ \E e \in {"nil", "noconn", "write"} :
          /\ WriteRaw(e)
          /\ LogWrite(p, FEED_N_CMD(2), e, TRUE)
          /\ IF e = "nil"
             THEN /\ pc' = [pc EXCEPT ![p] = "feed"]
                  /\ UNCHANGED <<err, result, lastFn, fnFails>>
             ELSE FnReturned(p, Err(e, "cut", i[p] + 1), 0)
    /\ FnFrame(p)

\* mutant: a retry does not repeat a cut that was already delivered
CutFnCut_SkipsDeliveredCut(p) ==
    /\ pc[p] = "fn" /\ op[p] = "Cut"
    /\ fnCalls' = Hist(fnCalls, p, fnCalls[p] + 1)
    /\ IF okWrites[p] > 0
       THEN /\ pc' = [pc EXCEPT ![p] = "feed"]
            /\ UNCHANGED <<err, result, lastFn, fnFails>>
            /\ NoWrite /\ NoTouch
       ELSE \E e \in {"nil", "noconn", "write"} :
              /\ WriteRaw(e)
              /\ LogWrite(p, CUT_CMD, e, TRUE)
              /\ IF e = "nil"
                 THEN /\ pc' = [pc EXCEPT ![p] = "feed"]
                      /\ UNCHANGED <<err, result, lastFn, fnFails>>
                 ELSE FnReturned(p, Err(e, "cut", i[p] + 1), 0)
    /\ FnFrame(p)

\* Cut's fn, first half: WriteRaw(CUT_CMD); an error is wrapped and returned
CutFnCut(p) ==
    /\ pc[p] = "fn" /\ op[p] = "Cut"
    /\ fnCalls' = Hist(fnCalls, p, fnCalls[p] + 1)
    /\ \E e \in {"nil", "noconn", "write"} :
          /\ WriteRaw(e)
          /\ LogWrite(p, CUT_CMD, e, TRUE)
          /\ IF e = "nil"
             THEN /\ pc' = [pc EXCEPT ![p] = "feed"]
                  /\ UNCHANGED <<err, result, lastFn, fnFails>>
             ELSE FnReturned(p, Err(e, "cut", i[p] + 1), 0)
    /\ FnFrame(p)

\* Cut's fn, second half: WriteRaw(FEED_N_CMD(2))
CutFnFeed(p) ==
    /\ pc[p] = "feed"
    /\ \E e \in {"nil", "noconn", "write"} :
          /\ WriteRaw(e)
          /\ LogWrite(p, FEED_N_CMD(2), e, FALSE)
          /\ FnReturned(p, IF e = "nil" THEN NoErr
                           ELSE Err(e, "feed", i[p] + 1), 0)
    /\ UNCHANGED fnCalls
    /\ FnFrame(p)

(***************************************************************************)
(* center and PrintGraphics' command buffer.                               *)
(***************************************************************************)
RECURSIVE CenterRows(_, _, _, _, _, _)
\* the loop `for y := range h` of center, from row y on, with the output so far
CenterRows(d, w_b, p_w_b, h, y, acc) ==
    IF y >= h THEN [err |-> "nil", out |-> acc]
    ELSE LET row_start == Mul(y, w_b)
             row_end == row_start + w_b
             padding_bytes == GoDiv(p_w_b - w_b, 2)
             right_padding == p_w_b - w_b - padding_bytes
         IN  IF row_end > Len(d) THEN [err |-> "center_row", out |-> <<>>]
             ELSE IF row_start < 0 \/ row_end < row_start
                  THEN [err |-> "panic", out |-> <<>>]
             ELSE CenterRows(d, w_b, p_w_b, h, y + 1,
                     acc \o (IF padding_bytes > 0 THEN Zeros(padding_bytes) ELSE <<>>)
                         \o SubSeq(d, row_start + 1, row_end)
                         \o (IF right_padding > 0 THEN Zeros(right_padding) ELSE <<>>))

\* mutant: the right padding is as wide as the left padding
center_SymmetricPadding(d, w_b, p_w_b, h) ==
    IF Len(d) < Mul(w_b, h) THEN [err |-> "center_short", out |-> <<>>]
    ELSE CenterRows(d, w_b, w_b + 2 * GoDiv(p_w_b - w_b, 2), h, 0, <<>>)

\* mutant: a buffer of exactly w_b * h bytes is refused
center_RejectsExactSize(d, w_b, p_w_b, h) ==
    IF Len(d) <= Mul(w_b, h) THEN [err |-> "center_short", out |-> <<>>]
    ELSE CenterRows(d, w_b, p_w_b, h, 0, <<>>)

center(d, w_b, p_w_b, h) ==
    IF Len(d) < Mul(w_b, h) THEN [err |-> "center_short", out |-> <<>>]
    ELSE CenterRows(d, w_b, p_w_b, h, 0, <<>>)

\* byte(x & 0xFF) and byte((x >> 8) & 0xFF) of a Go int
LoByte(x) == x % 256
HiByte_Dropped(x) == 0
HiByte(x) == (x \div 256) % 256

\* mutant: all of data is sent, also the bytes beyond the declared size
RasterCommand_SendsAllData(data, width, height, rw) ==
    LET width_bytes == GoDiv(width, 8)
        required_bytes == Mul(width_bytes, height)
        paper_width_bytes == GoDiv(rw, 8)
    IN  IF Len(data) < required_bytes THEN [err |-> "short", buf |-> <<>>]
        ELSE IF required_bytes < 0 THEN [err |-> "panic", buf |-> <<>>]
        ELSE LET raster_data == data
                 c == IF width < rw
                      THEN center(raster_data, width_bytes, paper_width_bytes, height)
                      ELSE [err |-> "nil", out |-> raster_data]
                 wb == IF width < rw THEN paper_width_bytes ELSE width_bytes
             IN  IF c.err # "nil" THEN [err |-> c.err, buf |-> <<>>]
                 ELSE [err |-> "nil",
                       buf |-> PRINT_RASTER_CMD
                               \o <<LoByte(wb), HiByte(wb), LoByte(height), HiByte(height)>>
                               \o c.out \o FEED_N_CMD(12)]

\* mutant: an image wider than the paper is cut to the paper's size
RasterCommand_ClipsOversized(data, width, height, rw) ==
    LET width_bytes == GoDiv(width, 8)
        required_bytes == Mul(width_bytes, height)
        paper_width_bytes == GoDiv(rw, 8)
    IN  IF Len(data) < required_bytes THEN [err |-> "short", buf |-> <<>>]
        ELSE IF required_bytes < 0 THEN [err |-> "panic", buf |-> <<>>]
        ELSE LET raster_data == SubSeq(data, 1, required_bytes)
                 c == IF width < rw
                      THEN center(raster_data, width_bytes, paper_width_bytes, height)
                      ELSE [err |-> "nil",
                            out |-> SubSeq(raster_data, 1, Mul(paper_width_bytes, height))]
                 wb == IF width < rw THEN paper_width_bytes ELSE width_bytes
             IN  IF c.err # "nil" THEN [err |-> c.err, buf |-> <<>>]
                 ELSE [err |-> "nil",
                       buf |-> PRINT_RASTER_CMD
                               \o <<LoByte(wb), HiByte(wb), LoByte(height), HiByte(height)>>
                               \o c.out \o FEED_N_CMD(12)]

\* mutant: the length of data is not checked, data that is too short is sent
\* as it is
RasterCommand_NoLengthCheck(data, width, height, rw) ==
    LET width_bytes == GoDiv(width, 8)
        required_bytes == Mul(width_bytes, height)
        paper_width_bytes == GoDiv(rw, 8)
    IN  IF required_bytes < 0 THEN [err |-> "panic", buf |-> <<>>]
        ELSE LET raster_data == IF Len(data) < required_bytes THEN data
                                ELSE SubSeq(data, 1, required_bytes)
                 c == IF width < rw
                      THEN center(raster_data, width_bytes, paper_width_bytes, height)
                      ELSE [err |-> "nil", out |-> raster_data]
                 wb == IF width < rw THEN paper_width_bytes ELSE width_bytes
             IN  IF c.err # "nil" THEN [err |-> c.err, buf |-> <<>>]
                 ELSE [err |-> "nil",
                       buf |-> PRINT_RASTER_CMD
                               \o <<LoByte(wb), HiByte(wb), LoByte(height), HiByte(height)>>
                               \o c.out \o FEED_N_CMD(12)]

\* PrintGraphics up to the call of withRetry: [err, buf]
RasterCommand(data, width, height, rw) ==
    LET width_bytes == GoDiv(width, 8)
        required_bytes == Mul(width_bytes, height)
        paper_width_bytes == GoDiv(rw, 8)
    IN  IF Len(data) < required_bytes THEN [err |-> "short", buf |-> <<>>]
        ELSE IF required_bytes < 0 THEN [err |-> "panic", buf |-> <<>>]
        ELSE LET raster_data == SubSeq(data, 1, required_bytes)
                 c == IF width < rw
                      THEN center(raster_data, width_bytes, paper_width_bytes, height)
                      ELSE [err |-> "nil", out |-> raster_data]
                 wb == IF width < rw THEN paper_width_bytes ELSE width_bytes
             IN  IF c.err # "nil" THEN [err |-> c.err, buf |-> <<>>]
                 ELSE [err |-> "nil",
                       buf |-> PRINT_RASTER_CMD
                               \o <<LoByte(wb), HiByte(wb), LoByte(height), HiByte(height)>>
                               \o c.out \o FEED_N_CMD(12)]

(***************************************************************************)
(* Inputs.                                                                 *)
(***************************************************************************)
\* NewPrinter takes any int: papers of two and three bytes per row, and one
\* narrower than a byte
ReceiptWidths == {4, 16, 24}

Image(w, h, d) == [width |-> w, height |-> h, data |-> d]

\* images handed to PrintGraphics directly: any data, any dimensions
Images == { Image(8, 1, <<7>>), Image(8, 2, <<7, 9>>), Image(16, 1, <<1, 2>>),
            Image(16, 1, <<1, 2, 3>>), Image(24, 1, <<1, 2, 3>>),
            Image(32, 1, <<1, 2, 3, 4>>), Image(12, 1, <<5>>),
            Image(0, 0, <<>>), Image(16, 2, <<1, 2, 3>>), Image(8, -1, <<>>),
            Image(-8, -1, <<4>>) }

\* images of more than 255 and of more than 65535 rows
TallImages == {Image(24, 300, Zeros(900)), Image(4, 65536, <<>>)}
\* the tall images are printed on the papers that are not wider than they are
UncenteredTallImages == {im \in TallImages : im.width >= receipt_width}

\* Parse only returns images with len(Data) == (Width/8)*Height
ParsedImages == { im \in Images : Len(im.data) = Mul(GoDiv(im.width, 8), im.height) }

NoImage == Image(0, 0, <<>>)
Instructions ==
    {[type |-> "pulse", image |-> NoImage], [type |-> "cut", image |-> NoImage]}
    \cup {[type |-> "image", image |-> im] : im \in ParsedImages}

Documents == UNION {[1..n -> Instructions] : n \in 0..MaxDoc}

NoReq == [st |-> "none", doc |-> <<>>, idx |-> 0, executed |-> <<>>, outcomes |-> <<>>]

(***************************************************************************)
(* The Printer's operations.                                               *)
(***************************************************************************)
\* mutant: the drawer kick gets the image budget
StartKickDrawer_ImageBudget(p) ==
    EnterWithRetry(p, "KickDrawer", PrintGraphicsRetries, <<>>) /\ SetArgs(p, NoArgs)

StartKickDrawer(p) ==
    EnterWithRetry(p, "KickDrawer", KickDrawerRetries, <<>>) /\ SetArgs(p, NoArgs)

StartCut(p) == EnterWithRetry(p, "Cut", CutRetries, <<>>) /\ SetArgs(p, NoArgs)

\* PrintGraphics: a sizing error returns before the transport is used
StartPrintGraphics(p, im) ==
    LET rc == RasterCommand(im.data, im.width, im.height, receipt_width)
    IN  /\ SetArgs(p, Args(im.data, im.width, im.height, receipt_width))
        /\ IF rc.err = "nil"
           THEN EnterWithRetry(p, "PrintGraphics", PrintGraphicsRetries, rc.buf)
           ELSE /\ op' = [op EXCEPT ![p] = "PrintGraphics"]
                /\ pc' = [pc EXCEPT ![p] = IF rc.err = "panic" THEN "panic" ELSE "ret"]
                /\ err' = [err EXCEPT ![p] = Err(rc.err, "none", 0)]
                /\ maxRetries' = [maxRetries EXCEPT ![p] = 0]
                /\ i' = [i EXCEPT ![p] = 0]
                /\ result' = [result EXCEPT ![p] = 0]
                /\ buf' = [buf EXCEPT ![p] = <<>>]
                /\ ResetHistory(p)
                /\ UNCHANGED <<receipt_width, connection, writer>>

\* the operation's frame is gone once its caller has the returned values
ClearFrame(p) ==
    /\ pc' = [pc EXCEPT ![p] = "idle"]
    /\ op' = [op EXCEPT ![p] = "none"]
    /\ maxRetries' = [maxRetries EXCEPT ![p] = 0]
    /\ i' = [i EXCEPT ![p] = 0]
    /\ err' = [err EXCEPT ![p] = NoErr]
    /\ result' = [result EXCEPT ![p] = 0]
    /\ buf' = [buf EXCEPT ![p] = <<>>]
    /\ ResetHistory(p)
    /\ SetArgs(p, NoArgs)
    /\ UNCHANGED <<receipt_width, connection, writer>>

Free(p) == pc[p] = "idle" /\ req[p].st = "none"

CallWithRetry(p) ==
    /\ Free(p)
    /\ \E n \in 0..MaxBudget : EnterWithRetry(p, "fn", n, <<>>)
    /\ SetArgs(p, NoArgs)
    /\ UNCHANGED req

CallKickDrawer(p) == Free(p) /\ StartKickDrawer(p) /\ UNCHANGED req

CallCut(p) == Free(p) /\ StartCut(p) /\ UNCHANGED req

CallPrintGraphics(p) ==
    /\ Free(p)
    /\ \E im \in Images \cup UncenteredTallImages : StartPrintGraphics(p, im)
    /\ UNCHANGED req

\* center called on its own (as the tests do): the buffers, row widths, paper
\* widths and heights it is called with
CenterData == {[k \in 1..n |-> k] : n \in 0..6}
CenterWidths == -1..3
CenterPaperWidths == 0..4
CenterHeights == -1..3

CallCenter(p) ==
    /\ Free(p)
    /\ \E d \in CenterData, w_b \in CenterWidths, p_w_b \in CenterPaperWidths,
          h \in CenterHeights :
          LET c == center(d, w_b, p_w_b, h)
          IN  /\ op' = [op EXCEPT ![p] = "center"]
              /\ pc' = [pc EXCEPT ![p] = IF c.err = "panic" THEN "panic" ELSE "ret"]
              /\ err' = [err EXCEPT ![p] = IF c.err = "nil" THEN NoErr
                                           ELSE Err(c.err, "none", 0)]
              /\ buf' = [buf EXCEPT ![p] = c.out]
              /\ SetArgs(p, Args(d, w_b, h, p_w_b))
    /\ maxRetries' = [maxRetries EXCEPT ![p] = 0]
    /\ i' = [i EXCEPT ![p] = 0]
    /\ result' = [result EXCEPT ![p] = 0]
    /\ ResetHistory(p)
    /\ UNCHANGED <<receipt_width, connection, writer, req>>

Return(p) ==
    /\ pc[p] = "ret" /\ req[p].st = "none"
    /\ ClearFrame(p)
    /\ UNCHANGED req

\* a panic unwinds the goroutine (net/http recovers a handler's panic)
Recover(p) ==
    /\ pc[p] = "panic"
    /\ ClearFrame(p)
    /\ req' = [req EXCEPT ![p] = NoReq]

(***************************************************************************)
(* The request handler's dispatch loop.                                    *)
(***************************************************************************)
HandleRequest(p) ==
    /\ Free(p)
    /\ \E d \in Documents :
          req' = [req EXCEPT ![p] = [st |-> "run", doc |-> d, idx |-> 1,
                                     executed |-> <<>>, outcomes |-> <<>>]]
    /\ UNCHANGED <<receipt_width, connection, writer, pc, op, maxRetries, i, err, result, buf>>
    /\ UNCHANGED <<ghostVars, parserVars, httpVars, lockVars>>

\* `for i, inst := range epos.Instructions { switch inst.Type {...} }`
Dispatch(p) ==
    /\ req[p].st = "run" /\ pc[p] = "idle"
    /\ req[p].idx <= Len(req[p].doc)
    /\ LET inst == req[p].doc[req[p].idx]
       IN  CASE inst.type = "image" -> StartPrintGraphics(p, inst.image)
             [] inst.type = "pulse" -> StartKickDrawer(p)
             [] inst.type = "cut" -> StartCut(p)
    /\ req' = [req EXCEPT ![p].executed = Append(@, req[p].idx)]

\* mutant: a failed instruction is skipped and the loop goes on
AfterInstruction_SkipsFailure(p) ==
    /\ req[p].st = "run" /\ pc[p] = "ret"
    /\ req' = [req EXCEPT ![p].outcomes = Append(@, err[p] = NoErr),
                          ![p].idx = @ + 1]
    /\ ClearFrame(p)

\* `if err != nil { http.Error(...); return }`, else the next instruction
AfterInstruction(p) ==
    /\ req[p].st = "run" /\ pc[p] = "ret"
    /\ req' = [req EXCEPT ![p].outcomes = Append(@, err[p] = NoErr),
                          ![p].st = IF err[p] = NoErr THEN "run" ELSE "failed",
                          ![p].idx = IF err[p] = NoErr THEN @ + 1 ELSE @]
    /\ ClearFrame(p)

\* the loop is over: the success acknowledgement is written
Respond(p) ==
    /\ req[p].st = "run" /\ pc[p] = "idle"
    /\ req[p].idx > Len(req[p].doc)
    /\ req' = [req EXCEPT ![p].st = "ok"]
    /\ UNCHANGED <<receipt_width, connection, writer, pc, op, maxRetries, i, err, result, buf>>
    /\ UNCHANGED <<ghostVars, parserVars, httpVars, lockVars>>

\* the handler returns: the response is complete (200 after the acknowledgement,
\* 500 after http.Error)
HandlerReturn(p) ==
    /\ req[p].st \in {"ok", "failed"}
    /\ req' = [req EXCEPT ![p] = NoReq]
    /\ exchange' = IF exchange.st = "open"
                   THEN [exchange EXCEPT !.st = "answered",
                                         !.status = IF req[p].st = "ok" THEN 200 ELSE 500]
                   ELSE exchange
    /\ UNCHANGED <<receipt_width, connection, writer, pc, op, maxRetries, i, err, result, buf>>
    /\ UNCHANGED <<ghostVars, parserVars, server, lockVars>>

(***************************************************************************)
(* Parse.  A document reaches Parse as the token stream xml.Decoder makes  *)
(* of it; text is a sequence of one-character strings.                     *)
(***************************************************************************)
\* strings.TrimSpace
IsSpace(c) == c \in {" ", "\n", "\t", "\r"}

RECURSIVE TrimLeft(_)
TrimLeft(s) == IF s # <<>> /\ IsSpace(Head(s)) THEN TrimLeft(Tail(s)) ELSE s

RECURSIVE TrimRight(_)
TrimRight(s) ==
    IF s # <<>> /\ IsSpace(s[Len(s)]) THEN TrimRight(SubSeq(s, 1, Len(s) - 1)) ELSE s

TrimSpace(s) == TrimRight(TrimLeft(s))

\* base64.StdEncoding: the alphabet, padding required, \r and \n skipped
encodeStd ==
    <<"A", "B", "C", "D", "E", "F", "G", "H", "I", "J", "K", "L", "M",
      "N", "O", "P", "Q", "R", "S", "T", "U", "V", "W", "X", "Y", "Z",
      "a", "b", "c", "d", "e", "f", "g", "h", "i", "j", "k", "l", "m",
      "n", "o", "p", "q", "r", "s", "t", "u", "v", "w", "x", "y", "z",
      "0", "1", "2", "3", "4", "5", "6", "7", "8", "9", "+", "/">>

IsB64(c) == \E k \in 1..64 : encodeStd[k] = c
B64Value(c) == (CHOOSE k \in 1..64 : encodeStd[k] = c) - 1

StripNewlines(s) == SelectSeq(s, LAMBDA c : c \notin {"\n", "\r"})

\* one quantum of four characters; padding is legal in the last quantum only
DecodeQuantum(q, last) ==
    LET v(k) == B64Value(q[k])
        b1 == (v(1) * 4 + v(2) \div 16) % 256
        b2 == ((v(2) % 16) * 16 + v(3) \div 4) % 256
        b3 == ((v(3) % 4) * 64 + v(4)) % 256
    IN  IF ~(IsB64(q[1]) /\ IsB64(q[2])) THEN [ok |-> FALSE, bytes |-> <<>>]
        ELSE IF IsB64(q[3]) /\ IsB64(q[4]) THEN [ok |-> TRUE, bytes |-> <<b1, b2, b3>>]
        ELSE IF last /\ IsB64(q[3]) /\ q[4] = "="
             THEN [ok |-> TRUE, bytes |-> <<b1, b2>>]
        ELSE IF last /\ q[3] = "=" /\ q[4] = "=" THEN [ok |-> TRUE, bytes |-> <<b1>>]
        ELSE [ok |-> FALSE, bytes |-> <<>>]

RECURSIVE DecodeQuanta(_)
DecodeQuanta(t) ==
    IF t = <<>> THEN [ok |-> TRUE, bytes |-> <<>>]
    ELSE LET q == DecodeQuantum(SubSeq(t, 1, 4), Len(t) = 4)
             rest == DecodeQuanta(SubSeq(t, 5, Len(t)))
         IN  IF q.ok /\ rest.ok THEN [ok |-> TRUE, bytes |-> q.bytes \o rest.bytes]
             ELSE [ok |-> FALSE, bytes |-> <<>>]

DecodeString(s) ==
    LET t == StripNewlines(s)
    IN  IF Len(t) % 4 # 0 THEN [ok |-> FALSE, bytes |-> <<>>] ELSE DecodeQuanta(t)

\* fmt.Sscanf(value, "%d", &x): leading blanks, an optional sign, then the
\* leading decimal digits; x keeps its old value when there is no digit
\* (the documents' values hold no underscore and stay within int, the two
\* other ways the scan of a number fails)
decimalDigits == <<"0", "1", "2", "3", "4", "5", "6", "7", "8", "9">>
IsDigit(c) == \E k \in 1..10 : decimalDigits[k] = c
DigitValue(c) == (CHOOSE k \in 1..10 : decimalDigits[k] = c) - 1

RECURSIVE SkipBlanks(_)
SkipBlanks(s) == IF s # <<>> /\ Head(s) \in {" ", "\t", "\r"} THEN SkipBlanks(Tail(s)) ELSE s

RECURSIVE ScanNumber(_, _)
ScanNumber(s, acc) ==
    IF s # <<>> /\ IsDigit(Head(s)) THEN ScanNumber(Tail(s), acc * 10 + DigitValue(Head(s)))
    ELSE acc

\* mutant: a value with anything around its integer is not scanned
Sscanf_WholeValue(value, old) ==
    LET signed == value # <<>> /\ Head(value) \in {"+", "-"}
        body == IF signed THEN Tail(value) ELSE value
    IN  IF body = <<>> \/ \E k \in 1..Len(body) : ~IsDigit(body[k]) THEN old
        ELSE IF signed /\ Head(value) = "-" THEN -ScanNumber(body, 0)
        ELSE ScanNumber(body, 0)

Sscanf(value, old) ==
    LET t == SkipBlanks(value)
        signed == t # <<>> /\ Head(t) \in {"+", "-"}
        body == IF signed THEN Tail(t) ELSE t
    IN  IF body = <<>> \/ ~IsDigit(Head(body)) THEN old
        ELSE IF signed /\ Head(t) = "-" THEN -ScanNumber(body, 0)
        ELSE ScanNumber(body, 0)

\* the name spaces of the documents' elements, and
\* strings.Contains(space, "epson-pos") on them
EposSpace == "http://www.epson-pos.com/schemas/2011/03/epos-print"
Spaces == {EposSpace, "urn:epson-pos:other", "http://example.com/print", ""}
\* mutant: every name space is taken for the vendor's
ContainsEpsonPos_Any(space) == TRUE
ContainsEpsonPos(space) == space \in {EposSpace, "urn:epson-pos:other"}

Name(space, local) == [Space |-> space, Local |-> local]
Attr(local, value) == [Local |-> local, Value |-> value]

\* the attribute lists of the image elements of the documents
ImageAttrs ==
    { <<Attr("width", <<"8">>), Attr("height", <<"1">>)>>,
      <<Attr("height", <<"2">>), Attr("width", <<"8">>)>>,
      <<Attr("width", <<"1", "6">>), Attr("height", <<"1">>)>>,
      <<Attr("width", <<"-", "8">>), Attr("height", <<"-", "1">>)>>,
      <<Attr("width", <<"-", "4">>), Attr("height", <<"1">>)>>,
      <<Attr("width", <<"8">>), Attr("height", <<"-", "1">>)>>,
      <<Attr("width", <<"a", "b", "c">>), Attr("height", <<" ", "1", "p", "x">>)>>,
      <<>> }

\* the elements of the documents: the vendor's, and elements of the same
\* names that are unqualified or in other name spaces
StartElements ==
    [Name : {Name(EposSpace, l) : l \in {"epos-print", "pulse", "cut", "text"}},
     Attr : {<<>>}]
    \cup [Name : {Name(EposSpace, "image")}, Attr : ImageAttrs]
    \cup [Name : {Name("", "pulse"), Name("", "cut"), Name("http://example.com/print", "cut"),
                  Name("urn:epson-pos:other", "pulse")},
          Attr : {<<>>}]
    \cup [Name : {Name("", "image"), Name("http://example.com/print", "image")},
          Attr : {<<Attr("width", <<"8">>), Attr("height", <<"1">>)>>}]

\* the character data of the documents: base64 of <<1>>, of <<2>> (wrapped in
\* white space and broken by a newline), of <<3, 4>>, white space, a
\* character outside the alphabet, a chunk with its padding missing
CharDatas ==
    { <<"A", "Q", "=", "=">>,
      <<"\n", " ", "A", "\n", "g", "=", "=", " ">>,
      <<"A", "w", "Q", "=">>,
      <<" ", "\n", " ">>,
      <<"A", "?", "=", "=">>,
      <<"A", "Q">> }

NilImage == [nil |-> TRUE, Width |-> 0, Height |-> 0, Data |-> <<>>]
ImageDecoded == [nil |-> FALSE, Width |-> 0, Height |-> 0, Data |-> <<>>]

Running == [st |-> "run", err |-> "nil", nil |-> TRUE, Instructions |-> <<>>]

NoImageLog == [attrs |-> <<>>, chunks |-> <<>>]
NoElements == [vendor |-> FALSE, foreign |-> FALSE]

\* a vendor image element is open in the document
ImageElementOpen ==
    \E k \in 1..Len(xmlStack) :
        xmlStack[k].Local = "image" /\ ContainsEpsonPos(xmlStack[k].Space)

\* return nil, err
ReturnError_KeepsDocument(kind) ==
    [st |-> "err", err |-> kind, nil |-> FALSE, Instructions |-> epos.Instructions]

ReturnError(kind) == [st |-> "err", err |-> kind, nil |-> TRUE, Instructions |-> <<>>]

\* Parse returns: its locals and the decoder are gone
NoLocals == [xmlStack |-> <<>>, tokenCount |-> 0,
             epos |-> [XMLName |-> Name("", ""), Instructions |-> <<>>],
             currentImage |-> NilImage, inImage |-> FALSE]

Leave(ret) ==
    /\ parseRet' = ret
    /\ xmlStack' = NoLocals.xmlStack
    /\ tokenCount' = NoLocals.tokenCount
    /\ epos' = NoLocals.epos
    /\ currentImage' = NoLocals.currentImage
    /\ inImage' = NoLocals.inImage

\* Parse is entered: nothing read, nothing built
ParseEntry ==
    /\ parseRet = Running
    /\ xmlStack = NoLocals.xmlStack
    /\ tokenCount = NoLocals.tokenCount
    /\ epos = NoLocals.epos
    /\ currentImage = NoLocals.currentImage
    /\ inImage = NoLocals.inImage
    /\ recognized = <<>>
    /\ fault = "none"
    /\ imageLog = NoImageLog
    /\ elementLog = NoElements

RECURSIVE ScanAttrs(_, _)
ScanAttrs(attrs, im) ==
    IF attrs = <<>> THEN im
    ELSE LET a == Head(attrs)
         IN  ScanAttrs(Tail(attrs),
                 IF a.Local = "width" THEN [im EXCEPT !.Width = Sscanf(a.Value, im.Width)]
                 ELSE IF a.Local = "height"
                      THEN [im EXCEPT !.Height = Sscanf(a.Value, im.Height)]
                 ELSE im)

\* case xml.StartElement
ParseStartElement ==
    /\ parseRet.st = "run"
    /\ tokenCount < MaxTokens
    /\ Len(xmlStack) < MaxDepth
    /\ tokenCount' = tokenCount + 1
    /\ \E se \in StartElements :
         LET name == se.Name.Local
             vendor == ContainsEpsonPos(se.Name.Space)
         IN  /\ xmlStack' = Append(xmlStack, se.Name)
             /\ IF name = "epos-print" /\ vendor
                THEN /\ epos' = [epos EXCEPT !.XMLName = se.Name]
                     /\ UNCHANGED <<inImage, currentImage, recognized>>
                ELSE IF name = "pulse" /\ vendor
                THEN /\ epos' = [epos EXCEPT !.Instructions =
                                     Append(@, [Type |-> "InstPulse", Image |-> NilImage])]
                     /\ recognized' = Append(recognized, "InstPulse")
                     /\ UNCHANGED <<inImage, currentImage>>
                ELSE IF name = "cut" /\ vendor
                THEN /\ epos' = [epos EXCEPT !.Instructions =
                                     Append(@, [Type |-> "InstCut", Image |-> NilImage])]
                     /\ recognized' = Append(recognized, "InstCut")
                     /\ UNCHANGED <<inImage, currentImage>>
                ELSE IF name = "image" /\ vendor
                THEN /\ inImage' = TRUE
                     /\ currentImage' = ScanAttrs(se.Attr, ImageDecoded)
                     /\ UNCHANGED <<epos, recognized>>
                ELSE UNCHANGED <<epos, inImage, currentImage, recognized>>
             /\ imageLog' = IF name = "image" /\ vendor
                            THEN [attrs |-> se.Attr, chunks |-> <<>>] ELSE imageLog
             /\ elementLog' = IF name \in {"pulse", "cut", "image"}
                              THEN IF vendor THEN [elementLog EXCEPT !.vendor = TRUE]
                                   ELSE [elementLog EXCEPT !.foreign = TRUE]
                              ELSE elementLog
    /\ UNCHANGED <<parseRet, fault, printerVars, ghostVars, httpVars, lockVars>>

\* mutant: a chunk replaces the data decoded so far
ParseCharData_Overwrites ==
    /\ parseRet.st = "run"
    /\ tokenCount < MaxTokens
    /\ \E text \in CharDatas :
         LET content == TrimSpace(text)
             decoded == DecodeString(content)
         IN  /\ IF inImage /\ ~currentImage.nil /\ content # <<>>
                THEN IF ~decoded.ok
                     THEN Leave(ReturnError("base64"))
                     ELSE /\ currentImage' = [currentImage EXCEPT !.Data = decoded.bytes]
                          /\ tokenCount' = tokenCount + 1
                          /\ UNCHANGED <<parseRet, xmlStack, epos, inImage>>
                ELSE /\ tokenCount' = tokenCount + 1
                     /\ UNCHANGED <<parseRet, xmlStack, epos, inImage, currentImage>>
             /\ fault' = IF inImage /\ TrimSpace(text) # <<>> /\ ~DecodeString(TrimSpace(text)).ok
                         THEN "base64" ELSE fault
             /\ imageLog' = IF inImage /\ TrimSpace(text) # <<>>
                                 /\ ~DecodeString(TrimSpace(text)).ok
                            THEN NoImageLog
                            ELSE IF ImageElementOpen
                            THEN [imageLog EXCEPT !.chunks = Append(@, text)]
                            ELSE imageLog
    /\ UNCHANGED <<recognized, elementLog, printerVars, ghostVars, httpVars, lockVars>>

\* case xml.CharData
ParseCharData ==
    /\ parseRet.st = "run"
    /\ tokenCount < MaxTokens
    /\ \E text \in CharDatas :
         LET content == TrimSpace(text)
             decoded == DecodeString(content)
         IN  /\ IF inImage /\ ~currentImage.nil /\ content # <<>>
                THEN IF ~decoded.ok
                     THEN Leave(ReturnError("base64"))
                     ELSE /\ currentImage' = [currentImage EXCEPT !.Data = @ \o decoded.bytes]
                          /\ tokenCount' = tokenCount + 1
                          /\ UNCHANGED <<parseRet, xmlStack, epos, inImage>>
                ELSE /\ tokenCount' = tokenCount + 1
                     /\ UNCHANGED <<parseRet, xmlStack, epos, inImage, currentImage>>
             /\ fault' = IF inImage /\ TrimSpace(text) # <<>> /\ ~DecodeString(TrimSpace(text)).ok
                         THEN "base64" ELSE fault
             /\ imageLog' = IF inImage /\ TrimSpace(text) # <<>>
                                 /\ ~DecodeString(TrimSpace(text)).ok
                            THEN NoImageLog
                            ELSE IF ImageElementOpen
                            THEN [imageLog EXCEPT !.chunks = Append(@, text)]
                            ELSE imageLog
    /\ UNCHANGED <<recognized, elementLog, printerVars, ghostVars, httpVars, lockVars>>

\* the image element closes: is its data of the declared size
SizeMismatch_Shorter(im) == Len(im.Data) < Mul(GoDiv(im.Width, 8), im.Height)

SizeMismatch(im) == Len(im.Data) # Mul(GoDiv(im.Width, 8), im.Height)

\* mutant: the image that closed stays the current image
ParseEndElement_KeepsImage ==
    /\ parseRet.st = "run"
    /\ tokenCount < MaxTokens
    /\ xmlStack # <<>>
    /\ LET se == xmlStack[Len(xmlStack)]
           popped == SubSeq(xmlStack, 1, Len(xmlStack) - 1)
           image == se.Local = "image" /\ ContainsEpsonPos(se.Space)
           wrong == /\ image /\ inImage
                    /\ Len(currentImage.Data) # Mul(GoDiv(currentImage.Width, 8), currentImage.Height)
       IN  /\ IF se.Local = "image" /\ ContainsEpsonPos(se.Space) /\ inImage
              THEN IF SizeMismatch(currentImage)
                   THEN Leave(ReturnError("size"))
                   ELSE /\ inImage' = FALSE
                        /\ epos' = [epos EXCEPT !.Instructions =
                                        Append(@, [Type |-> "InstImage", Image |-> currentImage])]
                        /\ currentImage' = currentImage
                        /\ xmlStack' = popped
                        /\ tokenCount' = tokenCount + 1
                        /\ UNCHANGED parseRet
              ELSE /\ xmlStack' = popped
                   /\ tokenCount' = tokenCount + 1
                   /\ UNCHANGED <<parseRet, epos, inImage, currentImage>>
           /\ recognized' = IF image /\ ~wrong THEN Append(recognized, "InstImage")
                            ELSE recognized
           /\ fault' = IF wrong THEN "size" ELSE fault
           /\ imageLog' = IF image THEN NoImageLog ELSE imageLog
    /\ UNCHANGED <<elementLog, printerVars, ghostVars, httpVars, lockVars>>

\* case xml.EndElement (the decoder closes the innermost open element)
ParseEndElement ==
    /\ parseRet.st = "run"
    /\ tokenCount < MaxTokens
    /\ xmlStack # <<>>
    /\ LET se == xmlStack[Len(xmlStack)]
           popped == SubSeq(xmlStack, 1, Len(xmlStack) - 1)
           image == se.Local = "image" /\ ContainsEpsonPos(se.Space)
           wrong == /\ image /\ inImage
                    /\ Len(currentImage.Data) # Mul(GoDiv(currentImage.Width, 8), currentImage.Height)
       IN  /\ IF se.Local = "image" /\ ContainsEpsonPos(se.Space) /\ inImage
              THEN IF SizeMismatch(currentImage)
                   THEN Leave(ReturnError("size"))
                   ELSE /\ inImage' = FALSE
                        /\ epos' = [epos EXCEPT !.Instructions =
                                        Append(@, [Type |-> "InstImage", Image |-> currentImage])]
                        /\ currentImage' = NilImage
                        /\ xmlStack' = popped
                        /\ tokenCount' = tokenCount + 1
                        /\ UNCHANGED parseRet
              ELSE /\ xmlStack' = popped
                   /\ tokenCount' = tokenCount + 1
                   /\ UNCHANGED <<parseRet, epos, inImage, currentImage>>
           /\ recognized' = IF image /\ ~wrong THEN Append(recognized, "InstImage")
                            ELSE recognized
           /\ fault' = IF wrong THEN "size" ELSE fault
           /\ imageLog' = IF image THEN NoImageLog ELSE imageLog
    /\ UNCHANGED <<elementLog, printerVars, ghostVars, httpVars, lockVars>>

\* a comment, a directive or a processing instruction: counted, not handled
ParseOtherToken ==
    /\ parseRet.st = "run"
    /\ tokenCount < MaxTokens
    /\ tokenCount' = tokenCount + 1
    /\ UNCHANGED <<parseRet, xmlStack, epos, inImage, currentImage, recognized, fault,
                   imageLog, elementLog, printerVars, ghostVars, httpVars, lockVars>>

\* decoder.Token fails: with io.EOF at the end of a document whose elements
\* are all closed, with a syntax error at its end otherwise
ParseEOF_BreaksOnAnyError ==
    /\ parseRet.st = "run"
    /\ Leave([st |-> "ok", err |-> "nil", nil |-> FALSE, Instructions |-> epos.Instructions])
    /\ fault' = IF xmlStack = <<>> THEN fault ELSE "syntax"
    /\ imageLog' = NoImageLog
    /\ UNCHANGED <<recognized, elementLog, printerVars, ghostVars, httpVars, lockVars>>

\* mutant: a document without a token is refused
ParseEOF_RefusesEmpty ==
    /\ parseRet.st = "run"
    /\ Leave(IF xmlStack = <<>> /\ tokenCount > 0
             THEN [st |-> "ok", err |-> "nil", nil |-> FALSE,
                   Instructions |-> epos.Instructions]
             ELSE ReturnError("syntax"))
    /\ fault' = IF xmlStack = <<>> THEN fault ELSE "syntax"
    /\ imageLog' = NoImageLog
    /\ UNCHANGED <<recognized, elementLog, printerVars, ghostVars, httpVars, lockVars>>

ParseEOF ==
    /\ parseRet.st = "run"
    /\ Leave(IF xmlStack = <<>>
             THEN [st |-> "ok", err |-> "nil", nil |-> FALSE,
                   Instructions |-> epos.Instructions]
             ELSE ReturnError("syntax"))
    /\ fault' = IF xmlStack = <<>> THEN fault ELSE "syntax"
    /\ imageLog' = NoImageLog
    /\ UNCHANGED <<recognized, elementLog, printerVars, ghostVars, httpVars, lockVars>>

\* decoder.Token fails on markup that is not well formed
ParseSyntaxError ==
    /\ parseRet.st = "run"
    /\ Leave(ReturnError("syntax"))
    /\ fault' = "syntax"
    /\ imageLog' = NoImageLog
    /\ UNCHANGED <<recognized, elementLog, printerVars, ghostVars, httpVars, lockVars>>

(***************************************************************************)
(* The life cycle of a Printer and of its writer: NewPrinter, the calls   *)
(* through the Writable interface, and Printer.Close.                      *)
(***************************************************************************)
\* what the life cycle's calls leave alone
LifeFrame == UNCHANGED <<maxRetries, i, result, buf, req, recording, args, fnCalls, fnFails,
                         lastFn, closeErrSeen, openErrSeen, attemptLog, writeCalls, okWrites,
                         touched, interrupted, interleaved, parserVars, httpVars, lockVars>>

\* the error value a method of the transport returned
ErrorOf(e) == IF e = "nil" THEN NoErr ELSE Err(e, "none", 0)

\* goroutine p calls method o, which makes opens Open calls and closes Close
\* calls on the transport and returns e
MethodReturns(p, o, e, opens, closes) ==
    /\ op' = [op EXCEPT ![p] = o]
    /\ pc' = [pc EXCEPT ![p] = "ret"]
    /\ err' = [err EXCEPT ![p] = ErrorOf(e)]
    /\ openCalls' = [openCalls EXCEPT ![p] = opens]
    /\ closeCalls' = [closeCalls EXCEPT ![p] = closes]

\* main calls NewPrinter once, when the process starts: the Printer gets a
\* writer that was never opened
CallNewPrinter(p) ==
    /\ Free(p)
    /\ device = FreshDevice /\ writer = "nil"
    /\ \E w \in ReceiptWidths : receipt_width' = w
    /\ connection' = Writer
    /\ op' = [op EXCEPT ![p] = "NewPrinter"]
    /\ pc' = [pc EXCEPT ![p] = "connect"]
    /\ err' = [err EXCEPT ![p] = NoErr]
    /\ openCalls' = [openCalls EXCEPT ![p] = 0]
    /\ closeCalls' = [closeCalls EXCEPT ![p] = 0]
    /\ UNCHANGED <<writer, device>>
    /\ LifeFrame

\* mutant: NewPrinter gives up at the first Open that fails
NewPrinterOpen_GivesUp(p) ==
    /\ pc[p] = "connect"
    /\ \E e \in {"nil", "open"} :
          /\ DeviceOpen(e)
          /\ pc' = [pc EXCEPT ![p] = "ret"]
          /\ err' = [err EXCEPT ![p] = ErrorOf(e)]
    /\ openCalls' = [openCalls EXCEPT ![p] = @ + 1]
    /\ UNCHANGED <<receipt_width, connection, op, closeCalls>>
    /\ LifeFrame

\* one turn of NewPrinter's loop: Open, return the Printer or sleep and loop
NewPrinterOpen(p) ==
    /\ pc[p] = "connect"
    /\ \E e \in {"nil", "open"} :
          /\ DeviceOpen(e)
          /\ pc' = [pc EXCEPT ![p] = IF e = "nil" THEN "ret" ELSE "connect"]
    /\ openCalls' = [openCalls EXCEPT ![p] = @ + 1]
    /\ UNCHANGED <<receipt_width, connection, op, err, closeCalls>>
    /\ LifeFrame

\* the holder of a Writable calls Open, Close or WriteRaw on it
CallOpen(p) ==
    /\ Free(p) /\ connection.type # "nil"
    /\ \E e \in {"nil", "open"} : DeviceOpen(e) /\ MethodReturns(p, "Open", e, 1, 0)
    /\ UNCHANGED <<receipt_width, connection>>
    /\ LifeFrame

CallClose(p) ==
    /\ Free(p) /\ connection.type # "nil"
    /\ \E e \in {"nil", "close"} : DeviceClose(e) /\ MethodReturns(p, "Close", e, 0, 1)
    /\ UNCHANGED <<receipt_width, connection>>
    /\ LifeFrame

\* the data handed to WriteRaw
WriteRawData == {KICK_CMD, CUT_CMD}

CallWriteRaw(p) ==
    /\ Free(p) /\ connection.type # "nil"
    /\ \E e \in {"nil", "noconn", "write"}, data \in WriteRawData :
          DeviceWriteRaw(e, data) /\ MethodReturns(p, "WriteRaw", e, 0, 0)
    /\ UNCHANGED <<receipt_width, connection>>
    /\ LifeFrame

\* mutant: Close reports success whatever the transport's Close returned
CallPrinterClose_HidesError(p) ==
    /\ Free(p)
    /\ IF connection.type = "nil"
       THEN /\ MethodReturns(p, "PrinterClose", "nil", 0, 0)
            /\ UNCHANGED <<writer, device>>
       ELSE \E e \in {"nil", "close"} :
               DeviceClose(e) /\ MethodReturns(p, "PrinterClose", "nil", 0, 1)
    /\ UNCHANGED <<receipt_width, connection>>
    /\ LifeFrame

\* Printer.Close
CallPrinterClose(p) ==
    /\ Free(p)
    /\ IF connection.type = "nil"
       THEN /\ MethodReturns(p, "PrinterClose", "nil", 0, 0)
            /\ UNCHANGED <<writer, device>>
       ELSE \E e \in {"nil", "close"} :
               DeviceClose(e) /\ MethodReturns(p, "PrinterClose", e, 0, 1)
    /\ UNCHANGED <<receipt_width, connection>>
    /\ LifeFrame

(***************************************************************************)
(* main and its HTTP server.  A command line is the flags that matter      *)
(* here; a request is its method, its Origin header and its body, the body *)
(* being empty, text that Parse refuses, or the document Parse makes of    *)
(* it.                                                                     *)
(***************************************************************************)
NoWhitelist == [given |-> FALSE, list |-> {}]
Whitelist(origins) == [given |-> TRUE, list |-> origins]

\* -printer, -proto and the README's -allow-origins
CommandLines ==
    [printer : {"", "/dev/usb/lp0"},
     proto : {"", "USB", "TCP", "LPT"},
     allowOrigins : {NoWhitelist, Whitelist({"https://example.com"})}]

ServerOff ==
    [st |-> "off", code |-> 0,
     argv |-> [printer |-> "", proto |-> "", allowOrigins |-> NoWhitelist]]

Methods == {"OPTIONS", "POST", "GET"}
Origins == {"https://example.com", "https://evil.example", ""}

HttpDocuments ==
    { <<>>,
      <<[type |-> "pulse", image |-> NoImage]>>,
      <<[type |-> "cut", image |-> NoImage], [type |-> "pulse", image |-> NoImage]>>,
      <<[type |-> "image", image |-> Image(16, 1, <<1, 2>>)]>> }

Bodies ==
    {[kind |-> "empty", doc |-> <<>>], [kind |-> "malformed", doc |-> <<>>]}
    \cup {[kind |-> "xml", doc |-> d] : d \in HttpDocuments}

NoExchange ==
    [st |-> "none", method |-> "", origin |-> "", status |-> 0, allowOrigin |-> ""]

\* the exit status main ends with before it serves, 0 if it goes on to serve:
\* flag.Parse exits with 2 on a flag that is not defined, main with 1
ExitCode(argv) ==
    IF argv.allowOrigins.given THEN 2
    ELSE IF argv.printer = "" THEN 1
    ELSE IF argv.proto = "" THEN 1
    ELSE IF argv.proto \notin {"TCP", "USB"} THEN 1
    ELSE 0

\* main, from flag.Parse to the server listening (NewPrinter returns the
\* Printer with its transport open)
StartServer ==
    /\ server.st = "off"
    /\ \E argv \in CommandLines :
         /\ server' = [st |-> IF ExitCode(argv) = 0 THEN "listening" ELSE "exited",
                       code |-> ExitCode(argv), argv |-> argv]
         /\ writer' = IF ExitCode(argv) = 0 THEN "open" ELSE writer
    /\ UNCHANGED <<receipt_width, connection, pc, op, maxRetries, i, err, result, buf, req>>
    /\ UNCHANGED <<exchange, ghostVars, parserVars, lockVars>>

\* the status of the handler's early returns, 0 if it goes on to the
\* instructions
EarlyStatus(method, body) ==
    IF method = "OPTIONS" THEN 200
    ELSE IF method # "POST" THEN 405
    ELSE IF body.kind = "empty" THEN 400
    ELSE IF body.kind = "malformed" THEN 400
    ELSE 0

\* the handler, up to the loop over the instructions
ServeHTTP(p) ==
    /\ server.st = "listening"
    /\ Free(p)
    /\ exchange.st # "open"
    /\ \E method \in Methods, origin \in Origins, body \in Bodies :
         /\ exchange' = [st |-> IF EarlyStatus(method, body) = 0 THEN "open" ELSE "answered",
                         method |-> method, origin |-> origin,
                         status |-> EarlyStatus(method, body),
                         allowOrigin |-> "*"]
         /\ req' = IF EarlyStatus(method, body) = 0
                   THEN [req EXCEPT ![p] = [st |-> "run", doc |-> body.doc, idx |-> 1,
                                            executed |-> <<>>, outcomes |-> <<>>]]
                   ELSE req
    /\ UNCHANGED <<receipt_width, connection, writer, pc, op, maxRetries, i, err, result, buf>>
    /\ UNCHANGED <<server, ghostVars, parserVars, lockVars>>

\* a client calls on a process that has exited: there is no response
ConnectRefused ==
    /\ server.st = "exited"
    /\ exchange.st = "none"
    /\ \E method \in Methods, origin \in Origins :
         exchange' = [st |-> "refused", method |-> method, origin |-> origin,
                      status |-> 0, allowOrigin |-> ""]
    /\ UNCHANGED <<server, printerVars, ghostVars, parserVars, lockVars>>

(***************************************************************************)
(* The handler with Parse: the body of a POST is a document that Parse     *)
(* reads token by token before any instruction is executed.                *)
(***************************************************************************)
\* Parse is not running and has not run
NotParsing == [st |-> "none", err |-> "nil", nil |-> TRUE, Instructions |-> <<>>]

BodyKinds == {"empty", "xml"}

\* the handler's view of an instruction of the EposPrint
ToInstruction(inst) ==
    IF inst.Type = "InstImage"
    THEN [type |-> "image",
          image |-> Image(inst.Image.Width, inst.Image.Height, inst.Image.Data)]
    ELSE [type |-> IF inst.Type = "InstPulse" THEN "pulse" ELSE "cut", image |-> NoImage]

ToDocument(insts) == [k \in 1..Len(insts) |-> ToInstruction(insts[k])]

\* the handler up to `epos, err := Parse(data)`: the early returns, or Parse
\* is entered
ReceiveRequest(p) ==
    /\ server.st = "listening"
    /\ Free(p)
    /\ exchange.st = "none"
    /\ \E method \in Methods, kind \in BodyKinds :
         LET early == EarlyStatus(method, [kind |-> kind, doc |-> <<>>])
         IN  /\ exchange' = [st |-> IF early = 0 THEN "open" ELSE "answered",
                             method |-> method, origin |-> "",
                             status |-> early, allowOrigin |-> "*"]
             /\ parseRet' = IF early = 0 THEN Running ELSE parseRet
    /\ UNCHANGED <<xmlStack, tokenCount, epos, currentImage, inImage, recognized, fault,
                   imageLog, elementLog>>
    /\ UNCHANGED <<server, printerVars, ghostVars, lockVars>>

\* mutant: the handler goes on to the instructions whatever Parse returned
AfterParse_IgnoresError(p) ==
    /\ exchange.st = "open"
    /\ Free(p)
    /\ parseRet.st \in {"ok", "err"}
    /\ req' = [req EXCEPT ![p] = [st |-> "run", doc |-> ToDocument(parseRet.Instructions),
                                  idx |-> 1, executed |-> <<>>, outcomes |-> <<>>]]
    /\ parseRet' = [parseRet EXCEPT !.st = "done"]
    /\ UNCHANGED exchange
    /\ UNCHANGED <<xmlStack, tokenCount, epos, currentImage, inImage, recognized, fault,
                   imageLog, elementLog>>
    /\ UNCHANGED <<receipt_width, connection, writer, pc, op, maxRetries, i, err, result, buf>>
    /\ UNCHANGED <<server, ghostVars, lockVars>>

\* `if err != nil { http.Error(..., 400); return }`, else the loop over
\* epos.Instructions is entered
AfterParse(p) ==
    /\ exchange.st = "open"
    /\ Free(p)
    /\ parseRet.st \in {"ok", "err"}
    /\ IF parseRet.st = "err"
       THEN /\ exchange' = [exchange EXCEPT !.st = "answered", !.status = 400]
            /\ UNCHANGED req
       ELSE /\ req' = [req EXCEPT ![p] = [st |-> "run",
                                          doc |-> ToDocument(parseRet.Instructions),
                                          idx |-> 1, executed |-> <<>>, outcomes |-> <<>>]]
            /\ UNCHANGED exchange
    /\ parseRet' = [parseRet EXCEPT !.st = "done"]
    /\ UNCHANGED <<xmlStack, tokenCount, epos, currentImage, inImage, recognized, fault,
                   imageLog, elementLog>>
    /\ UNCHANGED <<receipt_width, connection, writer, pc, op, maxRetries, i, err, result, buf>>
    /\ UNCHANGED <<server, ghostVars, lockVars>>

(***************************************************************************)
(* The writers' methods, statement by statement.  UsbWriter and TcpWriter  *)
(* have the same three methods: mu.Lock(), the test of the handle, the     *)
(* call on the handle or the dial, the assignment to the handle, and the   *)
(* deferred mu.Unlock().  Goroutines call the methods in any order.        *)
(***************************************************************************)
NoCall == [m |-> "none", at |-> "idle", ret |-> "nil"]

WriterMethods == {"WriteRaw", "Open", "Close"}

\* the goroutines that are in a call of this method
InMethod(m) == {q \in Procs : call[q].m = m /\ call[q].at # "idle"}

\* the data a goroutine writes
DataOf(p) == IF p = 1 THEN KICK_CMD ELSE CUT_CMD

\* a goroutine calls WriteRaw, Open or Close of the writer
Invoke(p) ==
    /\ call[p].at = "idle"
    /\ \E m \in WriterMethods :
         /\ m = "WriteRaw" => device.writes + Cardinality(InMethod(m)) < MaxDeviceCalls
         /\ m = "Open" => device.dials + Cardinality(InMethod(m)) < MaxDeviceCalls
         /\ call' = [call EXCEPT ![p] = [m |-> m, at |-> "lock", ret |-> "nil"]]
    /\ UNCHANGED <<mu, printerVars, ghostVars, parserVars, httpVars>>

\* mutant: the method goes on without waiting for the mutex
Lock_NoWait(p) ==
    /\ call[p].at = "lock"
    /\ mu' = p
    /\ call' = [call EXCEPT ![p].at = "check"]
    /\ UNCHANGED <<printerVars, ghostVars, parserVars, httpVars>>

\* u.mu.Lock()
Lock(p) ==
    /\ call[p].at = "lock"
    /\ mu = 0
    /\ mu' = p
    /\ call' = [call EXCEPT ![p].at = "check"]
    /\ UNCHANGED <<printerVars, ghostVars, parserVars, httpVars>>

\* the method returns at once: WriteRaw without a handle (with the error),
\* Open with a handle, Close without one
ReturnsEarly(m) ==
    IF m = "Open" THEN writer # "nil" ELSE writer = "nil"

\* mutant: the mutex protects the check only and is released before the handle is used
CheckHandle_ReleasesLock(p) ==
    /\ call[p].at = "check"
    /\ call' = [call EXCEPT ![p].at = IF ReturnsEarly(call[p].m) THEN "unlock" ELSE "io",
                            ![p].ret = IF ReturnsEarly(call[p].m) /\ call[p].m = "WriteRaw"
                                       THEN "noconn" ELSE "nil"]
    /\ mu' = 0
    /\ UNCHANGED <<printerVars, ghostVars, parserVars, httpVars>>

\* `if u.writer == nil { return ... }`, `if u.writer != nil { return nil }`
CheckHandle(p) ==
    /\ call[p].at = "check"
    /\ call' = [call EXCEPT ![p].at = IF ReturnsEarly(call[p].m) THEN "unlock" ELSE "io",
                            ![p].ret = IF ReturnsEarly(call[p].m) /\ call[p].m = "WriteRaw"
                                       THEN "noconn" ELSE "nil"]
    /\ UNCHANGED <<mu, printerVars, ghostVars, parserVars, httpVars>>

\* u.writer.Write(data), os.OpenFile / net.Dial, u.writer.Close(); a call on
\* a handle that is nil panics, a call on a handle that was closed fails
UseHandle(p) ==
    /\ call[p].at = "io"
    /\ \E ok \in BOOLEAN :
         LET m == call[p].m
             absent == m # "Open" /\ writer = "nil"
             closed == m # "Open" /\ writer # "nil" /\ device.handles < 1
             e == IF absent THEN "panic"
                  ELSE IF ok /\ ~closed THEN "nil"
                  ELSE IF m = "WriteRaw" THEN "write"
                  ELSE IF m = "Open" THEN "open" ELSE "close"
         IN  /\ call' = [call EXCEPT ![p].ret = e,
                                     ![p].at = IF absent \/ m = "WriteRaw"
                                                  \/ (m = "Open" /\ e # "nil")
                                               THEN "unlock" ELSE "assign"]
             /\ device' =
                  IF absent THEN device
                  ELSE IF m = "WriteRaw"
                  THEN [device EXCEPT !.writes = @ + 1,
                                      !.delivered = IF e = "nil" THEN Append(@, DataOf(p))
                                                    ELSE @]
                  ELSE IF m = "Open"
                  THEN [device EXCEPT !.dials = @ + 1,
                                      !.handles = IF e = "nil" THEN @ + 1 ELSE @]
                  ELSE [device EXCEPT !.closes = @ + 1,
                                      !.handles = IF closed THEN @ ELSE @ - 1]
    /\ UNCHANGED <<mu, receipt_width, connection, writer, pc, op, maxRetries, i, err, result,
                   buf, req>>
    /\ UNCHANGED <<recording, args, fnCalls, fnFails, lastFn, closeCalls, openCalls,
                   closeErrSeen, openErrSeen, attemptLog, writeCalls, okWrites,
                   touched, interrupted, interleaved>>
    /\ UNCHANGED <<parserVars, httpVars>>

\* mutant: a Close that reported an error keeps the handle
AssignHandle_KeepsOnCloseError(p) ==
    /\ call[p].at = "assign"
    /\ writer' = IF call[p].m = "Open" THEN "open"
                 ELSE IF call[p].ret = "close" THEN writer ELSE "nil"
    /\ call' = [call EXCEPT ![p].at = "unlock"]
    /\ UNCHANGED <<mu, receipt_width, connection, pc, op, maxRetries, i, err, result, buf, req>>
    /\ UNCHANGED <<ghostVars, parserVars, httpVars>>

\* `u.writer = f`, `u.writer = nil`
AssignHandle(p) ==
    /\ call[p].at = "assign"
    /\ writer' = IF call[p].m = "Open" THEN "open" ELSE "nil"
    /\ call' = [call EXCEPT ![p].at = "unlock"]
    /\ UNCHANGED <<mu, receipt_width, connection, pc, op, maxRetries, i, err, result, buf, req>>
    /\ UNCHANGED <<ghostVars, parserVars, httpVars>>

\* the deferred u.mu.Unlock(), and the return
Unlock(p) ==
    /\ call[p].at = "unlock"
    /\ mu' = 0
    /\ call' = [call EXCEPT ![p].at = "idle"]
    /\ UNCHANGED <<printerVars, ghostVars, parserVars, httpVars>>

(***************************************************************************)
(* Specifications.  Init is the Printer as NewPrinter returns it: its      *)
(* transport open.                                                         *)
(***************************************************************************)
Init ==
    /\ receipt_width \in ReceiptWidths
    /\ connection \in {Writer} \cup Mocks
    /\ writer = "open"
    /\ pc = [p \in Procs |-> "idle"]
    /\ op = [p \in Procs |-> "none"]
    /\ maxRetries = [p \in Procs |-> 0]
    /\ i = [p \in Procs |-> 0]
    /\ err = [p \in Procs |-> NoErr]
    /\ result = [p \in Procs |-> 0]
    /\ buf = [p \in Procs |-> <<>>]
    /\ req = [p \in Procs |-> NoReq]
    /\ fnCalls = [p \in Procs |-> 0]
    /\ fnFails = [p \in Procs |-> 0]
    /\ lastFn = [p \in Procs |-> [err |-> NoErr, val |-> 0]]
    /\ closeCalls = [p \in Procs |-> 0]
    /\ openCalls = [p \in Procs |-> 0]
    /\ closeErrSeen = [p \in Procs |-> FALSE]
    /\ openErrSeen = [p \in Procs |-> FALSE]
    /\ attemptLog = [p \in Procs |-> <<>>]
    /\ writeCalls = [p \in Procs |-> 0]
    /\ okWrites = [p \in Procs |-> 0]
    /\ touched = [p \in Procs |-> FALSE]
    /\ interrupted = [p \in Procs |-> FALSE]
    /\ interleaved = FALSE
    /\ recording = TRUE
    /\ args = [p \in Procs |-> NoArgs]
    /\ device = FreshDevice
    /\ server = ServerOff
    /\ exchange = NoExchange
    /\ mu = 0
    /\ call = [p \in Procs |-> NoCall]
    /\ ParseEntry

\* one goroutine uses the Printer
Next ==
    \/ CallWithRetry(1) \/ CallKickDrawer(1) \/ CallCut(1) \/ CallPrintGraphics(1)
    \/ CallCenter(1)
    \/ GenericFn(1) \/ KickDrawerFn(1) \/ PrintGraphicsFn(1)
    \/ CutFnCut(1) \/ CutFnFeed(1)
    \/ RetryClose(1) \/ RetryOpen(1) \/ Return(1) \/ Recover(1)
    \/ HandleRequest(1) \/ Dispatch(1) \/ AfterInstruction(1)
    \/ Respond(1) \/ HandlerReturn(1)

Spec == Init /\ [][Next]_vars

\* two goroutines (two requests being served) use the one Printer, whose
\* transport is a real writer
\* (the per-call history is not recorded: only the interleaving is observed)
ConcImages == {Image(16, 1, <<1, 2>>)}

ServePrintGraphics(p) ==
    /\ Free(p)
    /\ \E im \in ConcImages : StartPrintGraphics(p, im)
    /\ UNCHANGED req

InitConc ==
    /\ receipt_width = 16
    /\ connection = Writer
    /\ writer = "open"
    /\ pc = [p \in Procs |-> "idle"]
    /\ op = [p \in Procs |-> "none"]
    /\ maxRetries = [p \in Procs |-> 0]
    /\ i = [p \in Procs |-> 0]
    /\ err = [p \in Procs |-> NoErr]
    /\ result = [p \in Procs |-> 0]
    /\ buf = [p \in Procs |-> <<>>]
    /\ req = [p \in Procs |-> NoReq]
    /\ fnCalls = [p \in Procs |-> 0]
    /\ fnFails = [p \in Procs |-> 0]
    /\ lastFn = [p \in Procs |-> [err |-> NoErr, val |-> 0]]
    /\ closeCalls = [p \in Procs |-> 0]
    /\ openCalls = [p \in Procs |-> 0]
    /\ closeErrSeen = [p \in Procs |-> FALSE]
    /\ openErrSeen = [p \in Procs |-> FALSE]
    /\ attemptLog = [p \in Procs |-> <<>>]
    /\ writeCalls = [p \in Procs |-> 0]
    /\ okWrites = [p \in Procs |-> 0]
    /\ touched = [p \in Procs |-> FALSE]
    /\ interrupted = [p \in Procs |-> FALSE]
    /\ interleaved = FALSE
    /\ recording = FALSE
    /\ args = [p \in Procs |-> NoArgs]
    /\ device = FreshDevice
    /\ server = ServerOff
    /\ exchange = NoExchange
    /\ mu = 0
    /\ call = [p \in Procs |-> NoCall]
    /\ ParseEntry

NextConc ==
    \E p \in Procs :
        \/ CallKickDrawer(p) \/ CallCut(p) \/ ServePrintGraphics(p)
        \/ KickDrawerFn(p) \/ PrintGraphicsFn(p) \/ CutFnCut(p) \/ CutFnFeed(p)
        \/ RetryClose(p) \/ RetryOpen(p) \/ Return(p)

SpecConc == InitConc /\ [][NextConc]_vars

\* Parse runs on a document; the Printer is not used
InitParse ==
    /\ ParseEntry
    /\ receipt_width = 16
    /\ connection = Writer
    /\ writer = "open"
    /\ pc = [p \in Procs |-> "idle"]
    /\ op = [p \in Procs |-> "none"]
    /\ maxRetries = [p \in Procs |-> 0]
    /\ i = [p \in Procs |-> 0]
    /\ err = [p \in Procs |-> NoErr]
    /\ result = [p \in Procs |-> 0]
    /\ buf = [p \in Procs |-> <<>>]
    /\ req = [p \in Procs |-> NoReq]
    /\ fnCalls = [p \in Procs |-> 0]
    /\ fnFails = [p \in Procs |-> 0]
    /\ lastFn = [p \in Procs |-> [err |-> NoErr, val |-> 0]]
    /\ closeCalls = [p \in Procs |-> 0]
    /\ openCalls = [p \in Procs |-> 0]
    /\ closeErrSeen = [p \in Procs |-> FALSE]
    /\ openErrSeen = [p \in Procs |-> FALSE]
    /\ attemptLog = [p \in Procs |-> <<>>]
    /\ writeCalls = [p \in Procs |-> 0]
    /\ okWrites = [p \in Procs |-> 0]
    /\ touched = [p \in Procs |-> FALSE]
    /\ interrupted = [p \in Procs |-> FALSE]
    /\ interleaved = FALSE
    /\ recording = FALSE
    /\ args = [p \in Procs |-> NoArgs]
    /\ device = FreshDevice
    /\ server = ServerOff
    /\ exchange = NoExchange
    /\ mu = 0
    /\ call = [p \in Procs |-> NoCall]

NextParse ==
    \/ ParseStartElement \/ ParseCharData \/ ParseEndElement \/ ParseOtherToken
    \/ ParseEOF \/ ParseSyntaxError

SpecParse == InitParse /\ [][NextParse]_vars

\* a Printer literal as the tests build it (a mock, a writer that was never
\* opened, or no transport), or the process before main calls NewPrinter
InitLife ==
    /\ ParseEntry
    /\ receipt_width = 16
    /\ connection \in {Writer, NilConnection} \cup Mocks
    /\ writer = "nil"
    /\ pc = [p \in Procs |-> "idle"]
    /\ op = [p \in Procs |-> "none"]
    /\ maxRetries = [p \in Procs |-> 0]
    /\ i = [p \in Procs |-> 0]
    /\ err = [p \in Procs |-> NoErr]
    /\ result = [p \in Procs |-> 0]
    /\ buf = [p \in Procs |-> <<>>]
    /\ req = [p \in Procs |-> NoReq]
    /\ fnCalls = [p \in Procs |-> 0]
    /\ fnFails = [p \in Procs |-> 0]
    /\ lastFn = [p \in Procs |-> [err |-> NoErr, val |-> 0]]
    /\ closeCalls = [p \in Procs |-> 0]
    /\ openCalls = [p \in Procs |-> 0]
    /\ closeErrSeen = [p \in Procs |-> FALSE]
    /\ openErrSeen = [p \in Procs |-> FALSE]
    /\ attemptLog = [p \in Procs |-> <<>>]
    /\ writeCalls = [p \in Procs |-> 0]
    /\ okWrites = [p \in Procs |-> 0]
    /\ touched = [p \in Procs |-> FALSE]
    /\ interrupted = [p \in Procs |-> FALSE]
    /\ interleaved = FALSE
    /\ recording = TRUE
    /\ args = [p \in Procs |-> NoArgs]
    /\ device = FreshDevice
    /\ server = ServerOff
    /\ exchange = NoExchange
    /\ mu = 0
    /\ call = [p \in Procs |-> NoCall]

NextLife ==
    \/ CallNewPrinter(1) \/ NewPrinterOpen(1)
    \/ CallOpen(1) \/ CallClose(1) \/ CallWriteRaw(1)
    \/ CallPrinterClose(1) \/ Return(1)

SpecLife == InitLife /\ [][NextLife]_vars

\* the process before main runs, then main and the requests of one client
\* at a time
InitHttp ==
    /\ ParseEntry
    /\ receipt_width = 16
    /\ connection = Writer
    /\ writer = "nil"
    /\ pc = [p \in Procs |-> "idle"]
    /\ op = [p \in Procs |-> "none"]
    /\ maxRetries = [p \in Procs |-> 0]
    /\ i = [p \in Procs |-> 0]
    /\ err = [p \in Procs |-> NoErr]
    /\ result = [p \in Procs |-> 0]
    /\ buf = [p \in Procs |-> <<>>]
    /\ req = [p \in Procs |-> NoReq]
    /\ fnCalls = [p \in Procs |-> 0]
    /\ fnFails = [p \in Procs |-> 0]
    /\ lastFn = [p \in Procs |-> [err |-> NoErr, val |-> 0]]
    /\ closeCalls = [p \in Procs |-> 0]
    /\ openCalls = [p \in Procs |-> 0]
    /\ closeErrSeen = [p \in Procs |-> FALSE]
    /\ openErrSeen = [p \in Procs |-> FALSE]
    /\ attemptLog = [p \in Procs |-> <<>>]
    /\ writeCalls = [p \in Procs |-> 0]
    /\ okWrites = [p \in Procs |-> 0]
    /\ touched = [p \in Procs |-> FALSE]
    /\ interrupted = [p \in Procs |-> FALSE]
    /\ interleaved = FALSE
    /\ recording = FALSE
    /\ args = [p \in Procs |-> NoArgs]
    /\ device = FreshDevice
    /\ server = ServerOff
    /\ exchange = NoExchange
    /\ mu = 0
    /\ call = [p \in Procs |-> NoCall]

NextHttp ==
    \/ StartServer \/ ConnectRefused
    \/ ServeHTTP(1) \/ Dispatch(1)
    \/ KickDrawerFn(1) \/ PrintGraphicsFn(1) \/ CutFnCut(1) \/ CutFnFeed(1)
    \/ RetryClose(1) \/ RetryOpen(1)
    \/ AfterInstruction(1) \/ HandlerReturn(1) \/ Respond(1)

SpecHttp == InitHttp /\ [][NextHttp]_vars

\* two goroutines call the methods of one writer that was never opened
InitLock ==
    /\ ParseEntry
    /\ receipt_width = 16
    /\ connection = Writer
    /\ writer = "nil"
    /\ pc = [p \in Procs |-> "idle"]
    /\ op = [p \in Procs |-> "none"]
    /\ maxRetries = [p \in Procs |-> 0]
    /\ i = [p \in Procs |-> 0]
    /\ err = [p \in Procs |-> NoErr]
    /\ result = [p \in Procs |-> 0]
    /\ buf = [p \in Procs |-> <<>>]
    /\ req = [p \in Procs |-> NoReq]
    /\ fnCalls = [p \in Procs |-> 0]
    /\ fnFails = [p \in Procs |-> 0]
    /\ lastFn = [p \in Procs |-> [err |-> NoErr, val |-> 0]]
    /\ closeCalls = [p \in Procs |-> 0]
    /\ openCalls = [p \in Procs |-> 0]
    /\ closeErrSeen = [p \in Procs |-> FALSE]
    /\ openErrSeen = [p \in Procs |-> FALSE]
    /\ attemptLog = [p \in Procs |-> <<>>]
    /\ writeCalls = [p \in Procs |-> 0]
    /\ okWrites = [p \in Procs |-> 0]
    /\ touched = [p \in Procs |-> FALSE]
    /\ interrupted = [p \in Procs |-> FALSE]
    /\ interleaved = FALSE
    /\ recording = FALSE
    /\ args = [p \in Procs |-> NoArgs]
    /\ device = FreshDevice
    /\ server = ServerOff
    /\ exchange = NoExchange
    /\ mu = 0
    /\ call = [p \in Procs |-> NoCall]

NextLock ==
    \E p \in Procs :
        \/ Invoke(p) \/ Lock(p) \/ CheckHandle(p) \/ UseHandle(p)
        \/ AssignHandle(p) \/ Unlock(p)

SpecLock == InitLock /\ [][NextLock]_vars

\* the server listens, its Printer connected; one request arrives and is
\* handled
InitServe ==
    /\ parseRet = NotParsing
    /\ xmlStack = NoLocals.xmlStack
    /\ tokenCount = NoLocals.tokenCount
    /\ epos = NoLocals.epos
    /\ currentImage = NoLocals.currentImage
    /\ inImage = NoLocals.inImage
    /\ recognized = <<>>
    /\ fault = "none"
    /\ imageLog = NoImageLog
    /\ elementLog = NoElements
    /\ receipt_width = 16
    /\ connection = Writer
    /\ writer = "open"
    /\ pc = [p \in Procs |-> "idle"]
    /\ op = [p \in Procs |-> "none"]
    /\ maxRetries = [p \in Procs |-> 0]
    /\ i = [p \in Procs |-> 0]
    /\ err = [p \in Procs |-> NoErr]
    /\ result = [p \in Procs |-> 0]
    /\ buf = [p \in Procs |-> <<>>]
    /\ req = [p \in Procs |-> NoReq]
    /\ fnCalls = [p \in Procs |-> 0]
    /\ fnFails = [p \in Procs |-> 0]
    /\ lastFn = [p \in Procs |-> [err |-> NoErr, val |-> 0]]
    /\ closeCalls = [p \in Procs |-> 0]
    /\ openCalls = [p \in Procs |-> 0]
    /\ closeErrSeen = [p \in Procs |-> FALSE]
    /\ openErrSeen = [p \in Procs |-> FALSE]
    /\ attemptLog = [p \in Procs |-> <<>>]
    /\ writeCalls = [p \in Procs |-> 0]
    /\ okWrites = [p \in Procs |-> 0]
    /\ touched = [p \in Procs |-> FALSE]
    /\ interrupted = [p \in Procs |-> FALSE]
    /\ interleaved = FALSE
    /\ recording = TRUE
    /\ args = [p \in Procs |-> NoArgs]
    /\ device = FreshDevice
    /\ server = [st |-> "listening", code |-> 0,
                 argv |-> [printer |-> "/dev/usb/lp0", proto |-> "USB",
                           allowOrigins |-> NoWhitelist]]
    /\ exchange = NoExchange
    /\ mu = 0
    /\ call = [p \in Procs |-> NoCall]

NextServe ==
    \/ ReceiveRequest(1)
    \/ ParseStartElement \/ ParseCharData \/ ParseEndElement \/ ParseOtherToken
    \/ ParseEOF \/ ParseSyntaxError
    \/ AfterParse(1) \/ Dispatch(1)
    \/ KickDrawerFn(1) \/ PrintGraphicsFn(1) \/ CutFnCut(1) \/ CutFnFeed(1)
    \/ RetryClose(1) \/ RetryOpen(1)
    \/ AfterInstruction(1) \/ HandlerReturn(1) \/ Respond(1)

SpecServe == InitServe /\ [][NextServe]_vars

\* one goroutine calls the Printer's three operations; every call of the
\* transport returns, so a retry loop that can take a step takes one
NextTerm ==
    \/ CallKickDrawer(1) \/ CallCut(1) \/ CallPrintGraphics(1)
    \/ KickDrawerFn(1) \/ PrintGraphicsFn(1) \/ CutFnCut(1) \/ CutFnFeed(1)
    \/ RetryClose(1) \/ RetryOpen(1) \/ Return(1) \/ Recover(1)

LoopStep(p) ==
    \/ KickDrawerFn(p) \/ PrintGraphicsFn(p) \/ CutFnCut(p) \/ CutFnFeed(p)
    \/ RetryClose(p) \/ RetryOpen(p)

SpecTerm == Init /\ [][NextTerm]_vars /\ WF_vars(LoopStep(1))



(***************************************************************************)
(* Claims about withRetry.                                                 *)
(***************************************************************************)
Returned(p) == pc[p] = "ret" /\ maxRetries[p] >= 1
AllFailed(p) == Returned(p) /\ fnFails[p] = fnCalls[p]
Succeeded(p) == Returned(p) /\ fnCalls[p] >= 1 /\ lastFn[p].err = NoErr

\* C1: for every budget N >= 1, a withRetry whose operation fails on every
\* attempt has invoked it exactly N times, closed the transport exactly N
\* times (once after each failure) and opened it exactly N-1 times: no reopen
\* follows the final failure.
C1_AlwaysFailingCounts ==
    \A p \in Procs :
        /\ AllFailed(p) => /\ fnCalls[p] = maxRetries[p]
                           /\ closeCalls[p] = maxRetries[p]
                           /\ openCalls[p] = maxRetries[p] - 1
        /\ InOp(p) => /\ closeCalls[p] \in {fnFails[p] - 1, fnFails[p]}
                      /\ openCalls[p] \in {closeCalls[p] - 1, closeCalls[p]}
                      /\ openCalls[p] <= maxRetries[p] - 1

C1_Witness ==
    \E p \in Procs : /\ AllFailed(p) /\ op[p] = "fn" /\ maxRetries[p] = 2
                     /\ fnCalls[p] = 2 /\ closeCalls[p] = 2 /\ openCalls[p] = 1

\* C2: for 1 <= k <= N, a withRetry whose operation first succeeds on its k-th
\* invocation has invoked it exactly k times, made k-1 Close and k-1 Open
\* calls, and returns that invocation's result with a nil error; nothing
\* happens between the success and the return.
C2_SuccessOnKth ==
    \A p \in Procs :
        Succeeded(p) => /\ fnCalls[p] <= maxRetries[p]
                        /\ fnFails[p] = fnCalls[p] - 1
                        /\ closeCalls[p] = fnCalls[p] - 1
                        /\ openCalls[p] = fnCalls[p] - 1
                        /\ err[p] = NoErr
                        /\ result[p] = lastFn[p].val

C2_Witness ==
    \E p \in Procs : /\ Succeeded(p) /\ op[p] = "fn" /\ maxRetries[p] = 5
                     /\ fnCalls[p] = 3 /\ result[p] = 3
                     /\ closeCalls[p] = 2 /\ openCalls[p] = 2

\* C7: when all N >= 1 attempts fail, withRetry returns a non-nil error, the
\* one the N-th invocation of the operation returned, never a reopen error.
C7_LastErrorReturned ==
    \A p \in Procs :
        AllFailed(p) => /\ err[p] # NoErr
                        /\ err[p] = lastFn[p].err
                        /\ err[p].at = maxRetries[p]
                        /\ err[p].kind # "open"

C7_Witness ==
    \E p \in Procs : /\ AllFailed(p) /\ maxRetries[p] >= 2 /\ openErrSeen[p]
                     /\ err[p].kind = "fn" /\ err[p].at = maxRetries[p]

\* C8: failing Close and Open calls never end the retry loop early: whatever
\* errors the recovery steps returned, withRetry returns a failure only after
\* N invocations of the operation.
C8_RecoveryFailuresDoNotAbort ==
    \A p \in Procs :
        (Returned(p) /\ err[p] # NoErr) => fnCalls[p] = maxRetries[p]

C8_Witness ==
    \E p \in Procs : /\ Returned(p) /\ err[p] # NoErr
                     /\ closeErrSeen[p] /\ openErrSeen[p]
                     /\ maxRetries[p] >= 3 /\ fnCalls[p] = maxRetries[p]

\* C9: PrintGraphics makes at most 3 attempts, KickDrawer and Cut at most 8;
\* a call none of whose writes succeeded has made exactly that many and
\* returns an error.
C9_AttemptBudgets ==
    \A p \in Procs :
        LET budget == CASE op[p] = "PrintGraphics" -> 3
                        [] op[p] = "KickDrawer" -> 8
                        [] op[p] = "Cut" -> 8
                        [] OTHER -> maxRetries[p]
        IN  /\ fnCalls[p] <= budget
            /\ (pc[p] = "ret" /\ writeCalls[p] > 0 /\ okWrites[p] = 0)
                  => fnCalls[p] = budget /\ err[p] # NoErr

C9_Witness ==
    \E p \in Procs : /\ pc[p] = "ret" /\ op[p] = "PrintGraphics" /\ okWrites[p] = 0
                     /\ fnCalls[p] = 3 /\ writeCalls[p] = 3 /\ err[p] # NoErr

(***************************************************************************)
(* Claims about Cut.                                                       *)
(***************************************************************************)
CutWrite(ok) == [data |-> <<29, 86, 0>>, ok |-> ok]
FeedWrite(ok) == [data |-> <<27, 100, 2>>, ok |-> ok]

\* C3: the writes of one attempt of Cut are separate WriteRaw calls, the cut
\* bytes 1D 56 00 first and then the feed(2) bytes 1B 64 02; a Cut that
\* succeeds on its first attempt has made exactly these two writes.
C3_CutThenFeed ==
    \A p \in Procs :
        op[p] = "Cut" =>
            /\ attemptLog[p] \in {<<>>, <<CutWrite(TRUE)>>, <<CutWrite(FALSE)>>,
                                  <<CutWrite(TRUE), FeedWrite(TRUE)>>,
                                  <<CutWrite(TRUE), FeedWrite(FALSE)>>}
            /\ (pc[p] = "ret" /\ err[p] = NoErr /\ fnCalls[p] = 1)
                  => /\ attemptLog[p] = <<CutWrite(TRUE), FeedWrite(TRUE)>>
                     /\ writeCalls[p] = 2

C3_Witness ==
    \E p \in Procs : /\ op[p] = "Cut" /\ pc[p] = "ret" /\ err[p] = NoErr
                     /\ fnCalls[p] = 1 /\ writeCalls[p] = 2

\* C4: the cut write and the feed write are one retried unit: the feed is
\* written only after the cut write of the same attempt succeeded, every
\* attempt starts with the cut bytes again, and a Cut whose feed write failed
\* on every attempt returns an error, having delivered the cut bytes once per
\* attempt.
C4_CutRetriedAsUnit ==
    \A p \in Procs :
        op[p] = "Cut" =>
            /\ pc[p] = "feed" => attemptLog[p] = <<CutWrite(TRUE)>>
            /\ Len(attemptLog[p]) = 2 => attemptLog[p][1] = CutWrite(TRUE)
            /\ fnCalls[p] >= 1 => /\ attemptLog[p] # <<>>
                                  /\ attemptLog[p][1].data = <<29, 86, 0>>
            /\ fnCalls[p] <= writeCalls[p]
            /\ (pc[p] = "ret" /\ fnCalls[p] >= 1 /\ writeCalls[p] = 2 * fnCalls[p]
                  /\ okWrites[p] = fnCalls[p] /\ attemptLog[p][2] = FeedWrite(FALSE))
                  => /\ err[p] # NoErr /\ err[p].wrap = "feed"
                     /\ fnCalls[p] = 8 /\ okWrites[p] = 8

C4_Witness ==
    \E p \in Procs : /\ op[p] = "Cut" /\ pc[p] = "ret" /\ err[p].wrap = "feed"
                     /\ writeCalls[p] = 16 /\ okWrites[p] = 8

(***************************************************************************)
(* Claims about the dispatch loop.                                         *)
(***************************************************************************)
\* C5: the instructions of a document are executed one at a time in document
\* order; the first one that returns an error ends the request, no later one
\* is executed, and the success acknowledgement is sent only when every
\* instruction succeeded.
C5_DocumentOrderAbortOnError ==
    \A p \in Procs :
        LET r == req[p] IN
        /\ \A j \in 1..Len(r.executed) : r.executed[j] = j
        /\ Len(r.executed) <= Len(r.doc)
        /\ Len(r.executed) \in {Len(r.outcomes), Len(r.outcomes) + 1}
        /\ r.st = "run" => ((Len(r.executed) = Len(r.outcomes) + 1) <=> (pc[p] # "idle"))
        /\ \A j \in 1..Len(r.outcomes) :
              ~r.outcomes[j] => /\ j = Len(r.outcomes) /\ j = Len(r.executed)
                                /\ r.st = "failed"
        /\ r.st = "failed" => Len(r.outcomes) >= 1 /\ ~r.outcomes[Len(r.outcomes)]
        /\ r.st = "ok" => /\ Len(r.outcomes) = Len(r.doc)
                          /\ \A j \in 1..Len(r.outcomes) : r.outcomes[j]

C5_Witness ==
    \E p \in Procs : /\ req[p].st = "failed" /\ Len(req[p].doc) = 2
                     /\ req[p].executed = <<1>> /\ req[p].outcomes = <<FALSE>>

(***************************************************************************)
(* Claims about concurrent callers.                                        *)
(***************************************************************************)
\* C6: two operations invoked concurrently on the same Printer are
\* serialized: once an operation has used the transport, no other goroutine
\* uses it before that operation has made its last transport call.
C6_OperationsSerialized == ~interleaved

(***************************************************************************)
(* Claims about PrintGraphics and center.                                  *)
(***************************************************************************)
\* PrintGraphics has passed its validation and handed its buffer to withRetry
Encoded(p) == op[p] = "PrintGraphics" /\ maxRetries[p] = 3

\* h rows of p_w_b bytes: row y holds the w_b bytes of row y of d after
\* (p_w_b - w_b) / 2 zero bytes, and zero bytes after them
PaddedRows(d, w_b, p_w_b, h) ==
    [k \in 1..(p_w_b * h) |->
        LET y == (k - 1) \div p_w_b
            x == (k - 1) % p_w_b
            left_pad == (p_w_b - w_b) \div 2
        IN  IF x >= left_pad /\ x < left_pad + w_b THEN d[y * w_b + (x - left_pad) + 1]
            ELSE 0]

\* the bytes between the 8-byte header and the 3-byte feed suffix
Payload(b) == SubSeq(b, 9, Len(b) - 3)

\* C14: a PrintGraphics that succeeds at once has made exactly one WriteRaw;
\* the bytes of every WriteRaw it makes are 1D 76 30 00, the low and the high
\* byte of width_bytes, the low and the high byte of height, the raster bytes
\* (the first (width/8)*height bytes of data, centered when width is below
\* the receipt width, and no byte of data beyond them), then 1B 64 0C; every
\* attempt sends this same buffer.
C14_RasterCommandBytes ==
    \A p \in Procs :
        Encoded(p) =>
            LET a == args[p]
                image_bytes == GoDiv(a.w, 8)
                paper_bytes == GoDiv(a.pw, 8)
                raster == SubSeq(a.d, 1, image_bytes * a.h)
                wb == IF a.w < a.pw THEN paper_bytes ELSE image_bytes
                body == IF a.w < a.pw THEN PaddedRows(raster, image_bytes, paper_bytes, a.h)
                        ELSE raster
            IN  /\ buf[p] = <<29, 118, 48, 0>>
                            \o <<wb % 256, (wb \div 256) % 256, a.h % 256, (a.h \div 256) % 256>>
                            \o body \o <<27, 100, 12>>
                /\ \A k \in 1..Len(attemptLog[p]) : attemptLog[p][k].data = buf[p]
                /\ Len(attemptLog[p]) <= 1
                /\ writeCalls[p] = fnCalls[p]
                /\ (pc[p] = "ret" /\ err[p] = NoErr /\ fnCalls[p] = 1)
                      => writeCalls[p] = 1 /\ okWrites[p] = 1

\* an image with a byte beyond its declared size was sent on the third attempt
C14_Witness ==
    \E p \in Procs : /\ Encoded(p) /\ pc[p] = "ret" /\ err[p] = NoErr
                     /\ args[p].d = <<1, 2, 3>> /\ args[p].w = 16 /\ args[p].pw = 16
                     /\ fnCalls[p] = 3 /\ writeCalls[p] = 3
                     /\ buf[p] = <<29, 118, 48, 0, 2, 0, 1, 0, 1, 2, 27, 100, 12>>

\* center has returned to the caller that called it on its own
Centered(p) == op[p] = "center" /\ pc[p] = "ret"

\* C15: for w_b bytes per image row, p_w_b >= w_b bytes per paper row and
\* h rows, center returns, row after row, left_pad zero bytes, the w_b bytes
\* of the row and right_pad zero bytes, with left_pad = floor((p_w_b - w_b) / 2)
\* and right_pad = p_w_b - w_b - left_pad; right_pad - left_pad is 0 or 1 and
\* the output has p_w_b * h bytes.
C15_CenterPadsEachRow ==
    \A p \in Procs :
        LET a == args[p]
            left_pad == (a.pw - a.w) \div 2
            right_pad == a.pw - a.w - left_pad
        IN  (/\ Centered(p) /\ err[p] = NoErr
             /\ a.w >= 0 /\ a.h >= 0 /\ a.pw >= a.w)
                =>  /\ Len(buf[p]) = a.pw * a.h
                    /\ right_pad - left_pad \in {0, 1}
                    /\ \A y \in 0..(a.h - 1) :
                          /\ \A x \in 1..left_pad : buf[p][y * a.pw + x] = 0
                          /\ \A x \in 1..a.w :
                                buf[p][y * a.pw + left_pad + x] = a.d[y * a.w + x]
                          /\ \A x \in 1..right_pad :
                                buf[p][y * a.pw + left_pad + a.w + x] = 0

\* two rows of one byte on a paper of four bytes: one zero byte before each
\* row's byte and two after it
C15_Witness ==
    \E p \in Procs : /\ Centered(p) /\ err[p] = NoErr
                     /\ args[p].w = 1 /\ args[p].pw = 4 /\ args[p].h = 2
                     /\ args[p].d = <<1, 2>>
                     /\ buf[p] = <<0, 1, 0, 0, 0, 2, 0, 0>>

\* the 16-bit little-endian fields at bytes 5-6 and 7-8 of a raster command
WidthField(b) == b[5] + 256 * b[6]
HeightField(b) == b[7] + 256 * b[8]

\* C16: a PrintGraphics called with width < receipt width emits a header whose
\* width field is receipt_width / 8, and a raster payload of
\* paper_width_bytes * height bytes that is the centered image: in each row the
\* image's bytes follow the left padding.
C16_CenteredHeaderAndPayload ==
    \A p \in Procs :
        LET a == args[p]
            image_bytes == GoDiv(a.w, 8)
            paper_bytes == GoDiv(a.pw, 8)
            left_pad == GoDiv(paper_bytes - image_bytes, 2)
        IN  (Encoded(p) /\ a.w < a.pw)
                =>  /\ WidthField(buf[p]) = paper_bytes
                    /\ Len(Payload(buf[p])) = paper_bytes * a.h
                    /\ \A y \in 0..(a.h - 1) : \A x \in 1..image_bytes :
                          Payload(buf[p])[y * paper_bytes + left_pad + x]
                              = a.d[y * image_bytes + x]

\* C17: a PrintGraphics called with width >= receipt width (equal or wider)
\* pads nothing and clips nothing: the raster payload is the first
\* (width/8)*height bytes of the bitmap, each as it was given.
C17_NoTransformAtOrAbovePaperWidth ==
    \A p \in Procs :
        LET a == args[p]
            required_bytes == GoDiv(a.w, 8) * a.h
        IN  (Encoded(p) /\ a.w >= a.pw)
                =>  /\ Payload(buf[p]) = SubSeq(a.d, 1, required_bytes)
                    /\ Len(buf[p]) = 8 + required_bytes + 3

\* an image of 32 pixels on a paper of 16 keeps its four bytes
C17_Witness ==
    \E p \in Procs : /\ Encoded(p) /\ pc[p] = "ret" /\ err[p] = NoErr
                     /\ args[p].w = 32 /\ args[p].pw = 16 /\ args[p].h = 1
                     /\ Payload(buf[p]) = args[p].d
                     /\ Len(args[p].d) = 4

\* PrintGraphics has encoded an image as wide as the receipt
EncodedAtPaperWidth(p) == Encoded(p) /\ args[p].w = args[p].pw

RefusedShortData(p) ==
    /\ op[p] = "PrintGraphics"
    /\ Len(args[p].d) < GoDiv(args[p].w, 8) * args[p].h

\* C19: a PrintGraphics with len(data) < (width/8)*height returns a validation
\* error and leaves the transport alone: it makes no WriteRaw, no Close, no
\* Open and no retry, and the connection's state is as it was before the call.
C19_ShortDataNeverReachesTransport ==
    /\ [](\A p \in Procs :
            RefusedShortData(p)
                =>  /\ pc[p] = "ret" /\ err[p].kind = "short"
                    /\ maxRetries[p] = 0 /\ i[p] = 0
                    /\ fnCalls[p] = 0 /\ writeCalls[p] = 0 /\ okWrites[p] = 0
                    /\ closeCalls[p] = 0 /\ openCalls[p] = 0
                    /\ attemptLog[p] = <<>> /\ ~touched[p])
    /\ [][\A p \in Procs :
            (~RefusedShortData(p) /\ RefusedShortData(p)')
                => (writer' = writer /\ connection' = connection)]_vars

\* two rows of two bytes asked for, three bytes given
C19_Witness ==
    \E p \in Procs : /\ RefusedShortData(p) /\ pc[p] = "ret"
                     /\ err[p].kind = "short"
                     /\ args[p].d = <<1, 2, 3>> /\ args[p].w = 16 /\ args[p].h = 2
                     /\ writeCalls[p] = 0

\* C20: for w_b >= 0 and h >= 0, center returns an error and no output when
\* the buffer holds fewer than w_b * h bytes (also when only later rows are
\* missing), and returns no error when it holds at least w_b * h bytes.
C20_CenterChecksLength ==
    \A p \in Procs :
        (op[p] = "center" /\ args[p].w >= 0 /\ args[p].h >= 0)
            =>  /\ pc[p] = "ret"
                /\ Len(args[p].d) < args[p].w * args[p].h
                      => (err[p] # NoErr /\ buf[p] = <<>>)
                /\ Len(args[p].d) >= args[p].w * args[p].h
                      => err[p] = NoErr

\* the first row of two bytes is there, the second is one byte short
C20_Witness ==
    \E p \in Procs : /\ Centered(p) /\ err[p] # NoErr /\ buf[p] = <<>>
                     /\ args[p].w = 2 /\ args[p].h = 2 /\ args[p].pw = 4
                     /\ args[p].d = <<1, 2, 3>>

\* a buffer of exactly w_b * h bytes is centered
C20_WitnessExactSize ==
    \E p \in Procs : /\ Centered(p) /\ err[p] = NoErr
                     /\ args[p].w = 2 /\ args[p].h = 2 /\ args[p].pw = 3
                     /\ args[p].d = <<1, 2, 3, 4>>
                     /\ buf[p] = <<1, 2, 0, 3, 4, 0>>

\* C21: a KickDrawer that succeeds on its first attempt has made exactly one
\* WriteRaw, of the five bytes 1B 70 00 19 19; every attempt of a KickDrawer
\* makes one WriteRaw of these same five bytes.
C21_KickDrawerBytes ==
    \A p \in Procs :
        op[p] = "KickDrawer"
            =>  /\ \A k \in 1..Len(attemptLog[p]) :
                      attemptLog[p][k].data = <<27, 112, 0, 25, 25>>
                /\ Len(attemptLog[p]) <= 1
                /\ writeCalls[p] = fnCalls[p]
                /\ (pc[p] = "ret" /\ err[p] = NoErr /\ fnCalls[p] = 1)
                      => (writeCalls[p] = 1 /\ okWrites[p] = 1)
                /\ (pc[p] = "ret" /\ err[p] = NoErr) => okWrites[p] = 1

\* the drawer was kicked by the second attempt, after one failed write
C21_Witness ==
    \E p \in Procs : /\ op[p] = "KickDrawer" /\ pc[p] = "ret" /\ err[p] = NoErr
                     /\ fnCalls[p] = 2 /\ writeCalls[p] = 2 /\ okWrites[p] = 1
                     /\ attemptLog[p] = <<[data |-> <<27, 112, 0, 25, 25>>, ok |-> TRUE]>>

(***************************************************************************)
(* Claims about NewPrinter, the writers and Printer.Close.                 *)
(***************************************************************************)
\* C22: NewPrinter returns only after an Open of its transport has succeeded
\* and never returns an error: after k failed opens and a success it has made
\* k+1 open attempts and the Printer's transport is open; while every Open has
\* failed it has not returned.
C22_NewPrinterReturnsConnected ==
    \A p \in Procs :
        op[p] = "NewPrinter"
            =>  LET failed == device.dials - device.handles
                IN  /\ err[p] = NoErr
                    /\ connection.type = "writer"
                    /\ device.dials = openCalls[p]
                    /\ pc[p] \in {"connect", "ret"}
                    /\ pc[p] = "connect"
                          => (writer = "nil" /\ failed = openCalls[p])
                    /\ pc[p] = "ret"
                          => (writer = "open" /\ device.handles = 1
                              /\ openCalls[p] = failed + 1)

\* NewPrinter has returned after two failed opens and a third that succeeded
C22_Witness ==
    \E p \in Procs : /\ op[p] = "NewPrinter" /\ pc[p] = "ret"
                     /\ openCalls[p] = 3 /\ device.dials = 3 /\ device.handles = 1
                     /\ writer = "open" /\ err[p] = NoErr

\* goroutine p calls method o of a UsbWriter or TcpWriter in this step
WriterCall(p, o) == pc[p] = "idle" /\ op'[p] = o /\ RealWriter

\* C23: Open and Close of a writer are idempotent.  Open on a writer that is
\* open returns nil, keeps the handle and asks the operating system for
\* nothing; Close on a writer that is not open returns nil and leaves it not
\* open; an Open that returned nil leaves the writer open and every Close
\* leaves it not open, so a repeated Open (or Close) changes nothing more.
C23_OpenCloseIdempotent ==
    /\ [][\A p \in Procs :
            /\ (WriterCall(p, "Open") /\ writer = "open")
                  => (err'[p] = NoErr /\ writer' = writer /\ device' = device)
            /\ (WriterCall(p, "Close") /\ writer = "nil")
                  => (err'[p] = NoErr /\ writer' = "nil" /\ device' = device)]_vars
    /\ [](\A p \in Procs :
            /\ (RealWriter /\ op[p] = "Open" /\ err[p] = NoErr) => writer = "open"
            /\ (RealWriter /\ op[p] = "Close") => writer = "nil"
            /\ (RealWriter /\ op[p] \in {"Open", "Close"})
                  => (device.handles = IF writer = "open" THEN 1 ELSE 0))

\* an Open has returned on a writer that was opened once, written to and
\* never closed: it found the writer open
C23_Witness ==
    \E p \in Procs : /\ RealWriter /\ op[p] = "Open" /\ pc[p] = "ret" /\ err[p] = NoErr
                     /\ device.dials = 1 /\ device.closes = 0 /\ device.writes = 1
                     /\ device.handles = 1 /\ writer = "open"

\* C24: WriteRaw on a writer that is not open (never opened, or closed)
\* returns an error, hands nothing to the device and leaves the writer not
\* open.
C24_WriteOnClosedWriterFails ==
    [][\A p \in Procs :
          (WriterCall(p, "WriteRaw") /\ writer = "nil")
              =>  /\ err'[p] # NoErr /\ err'[p].kind = "noconn"
                  /\ device' = device
                  /\ writer' = "nil"]_vars

\* a WriteRaw has failed on a writer that was opened, written to and closed
C24_Witness ==
    \E p \in Procs : /\ RealWriter /\ op[p] = "WriteRaw" /\ pc[p] = "ret"
                     /\ err[p].kind = "noconn" /\ writer = "nil"
                     /\ device.dials = 1 /\ device.closes = 1 /\ device.handles = 0
                     /\ device.delivered = <<KICK_CMD>>

\* goroutine p calls Printer.Close in this step
PrinterCloseCall(p) == pc[p] = "idle" /\ op'[p] = "PrinterClose"

\* C25: Printer.Close without a transport does nothing and returns nil; with
\* a transport it calls the transport's Close once and returns what that
\* returned (an error as it is); on a real writer a Printer.Close after a
\* Printer.Close returns nil.
C25_PrinterClose ==
    /\ [][\A p \in Procs :
            PrinterCloseCall(p)
                =>  /\ connection.type = "nil"
                          => (/\ err'[p] = NoErr /\ closeCalls'[p] = 0
                              /\ writer' = writer /\ device' = device)
                    /\ connection.type # "nil" => closeCalls'[p] = 1
                    /\ connection.type = "mock"
                          => err'[p] = (IF connection.CloseError
                                        THEN Err("close", "none", 0) ELSE NoErr)
                    /\ RealWriter
                          => (/\ writer' = "nil"
                              /\ writer = "nil" => (err'[p] = NoErr /\ device' = device)
                              /\ writer # "nil" => device'.closes = device.closes + 1
                              /\ err'[p] \in {NoErr, Err("close", "none", 0)})]_vars
    /\ [](\A p \in Procs :
            (op[p] = "PrinterClose" /\ RealWriter) => writer = "nil")

\* Printer.Close has returned the error of its transport's Close
C25_Witness ==
    \E p \in Procs : /\ op[p] = "PrinterClose" /\ pc[p] = "ret"
                     /\ connection.type = "mock" /\ connection.CloseError
                     /\ err[p] = Err("close", "none", 0) /\ closeCalls[p] = 1

\* Printer.Close has returned on a Printer without a transport
C25_WitnessNilConnection ==
    \E p \in Procs : /\ op[p] = "PrinterClose" /\ pc[p] = "ret"
                     /\ connection.type = "nil" /\ err[p] = NoErr /\ closeCalls[p] = 0

(***************************************************************************)
(* Claims about Parse.                                                     *)
(***************************************************************************)
ImagesOf(instructions) ==
    {instructions[k].Image : k \in {n \in 1..Len(instructions) :
                                        instructions[n].Type = "InstImage"}}

\* the size the declared dimensions ask for, with Go's division (which
\* truncates toward zero) and with floor division
TruncSize(im) == GoDiv(im.Width, 8) * im.Height
FloorSize(im) == (im.Width \div 8) * im.Height

\* this step handles the end of an open image element
ImageCloses ==
    /\ parseRet.st = "run"
    /\ xmlStack # <<>>
    /\ xmlStack[Len(xmlStack)].Local = "image"
    /\ ContainsEpsonPos(xmlStack[Len(xmlStack)].Space)
    /\ inImage
    /\ \/ parseRet'.st = "run" /\ Len(xmlStack') = Len(xmlStack) - 1
       \/ parseRet'.err = "size"

ImageAppended ==
    /\ parseRet'.st = "run"
    /\ epos'.Instructions =
           Append(epos.Instructions, [Type |-> "InstImage", Image |-> currentImage])

RECURSIVE TypesOf(_)
TypesOf(instructions) ==
    IF instructions = <<>> THEN <<>>
    ELSE <<Head(instructions).Type>> \o TypesOf(Tail(instructions))

\* C11: a document that parses without error, with or without an epos-print
\* root, yields as many instructions as it has recognized pulse, cut and image
\* elements of the vendor's name space, in the order the elements are met
\* (an image being met in full at its end tag, where its data is complete).
C11_OneInstructionPerElement ==
    parseRet.st = "ok" =>
        /\ Len(parseRet.Instructions) = Len(recognized)
        /\ TypesOf(parseRet.Instructions) = recognized

\* C12: Parse stops at the first invalid base64 chunk of an open image and at
\* the first image whose size is not the declared one, and returns an error
\* and no document: the instructions appended before it are not returned.
C12_FaultAbortsParse ==
    fault \in {"base64", "size"} =>
        /\ parseRet.st = "err" /\ parseRet.err = fault
        /\ parseRet.nil /\ parseRet.Instructions = <<>>

\* an invalid chunk came after instructions had been appended
C12_Witness ==
    /\ fault = "base64" /\ parseRet.st = "err" /\ parseRet.nil
    /\ Len(recognized) >= 2

\* C13: a document that is not well formed (a tag left open, broken markup)
\* makes Parse return an error and no instructions, also when recognized
\* elements precede the syntax error.
C13_SyntaxErrorNoDocument ==
    fault = "syntax" =>
        /\ parseRet.st = "err" /\ parseRet.err = "syntax"
        /\ parseRet.nil /\ parseRet.Instructions = <<>>

\* the document ended inside an element after a pulse and a cut were read
C13_Witness ==
    /\ fault = "syntax" /\ parseRet.st = "err" /\ parseRet.nil
    /\ recognized = <<"InstPulse", "InstCut">>

\* the element is named pulse, cut or image and its name space is empty or
\* without "epson-pos"
Foreign(name) ==
    /\ name.Local \in {"pulse", "cut", "image"}
    /\ name.Space \in {"", "http://example.com/print"}

\* this step reads the start tag (the end tag) of a foreign element
ForeignStart ==
    /\ parseRet.st = "run" /\ parseRet'.st = "run"
    /\ Len(xmlStack') = Len(xmlStack) + 1
    /\ Foreign(xmlStack'[Len(xmlStack')])
ForeignEnd ==
    /\ parseRet.st = "run" /\ parseRet'.st = "run"
    /\ Len(xmlStack') = Len(xmlStack) - 1
    /\ Foreign(xmlStack[Len(xmlStack)])

\* C26: an element named pulse, cut or image whose name space does not
\* contain the vendor identifier adds no instruction and opens no image; a
\* well-formed document whose pulse, cut and image elements are all of this
\* kind parses to an empty instruction sequence without an error.
C26_ForeignElementsIgnored ==
    /\ [][(ForeignStart \/ ForeignEnd)
            => (epos' = epos /\ inImage' = inImage /\ currentImage' = currentImage
                /\ recognized' = recognized)]_vars
    /\ []((parseRet.st # "run" /\ elementLog.foreign /\ ~elementLog.vendor
           /\ fault # "syntax")
            => (/\ parseRet.st = "ok" /\ parseRet.err = "nil" /\ ~parseRet.nil
                /\ parseRet.Instructions = <<>>))

\* a document with foreign elements and none of the vendor's was parsed
C26_Witness ==
    /\ parseRet.st = "ok" /\ parseRet.err = "nil" /\ ~parseRet.nil
    /\ parseRet.Instructions = <<>>
    /\ elementLog.foreign /\ ~elementLog.vendor /\ recognized = <<>>

\* Parse returned an EposPrint without instructions and no error
ReturnedEmpty ==
    /\ parseRet.st = "ok" /\ parseRet.err = "nil" /\ ~parseRet.nil
    /\ parseRet.Instructions = <<>>

\* C27: Parse of an input of zero bytes, and of a well-formed document in
\* which no vendor pulse, cut or image element occurs, returns an empty
\* instruction sequence and no error.
C27_EmptyDocument ==
    /\ [][(/\ parseRet.st = "run" /\ tokenCount = 0
           /\ parseRet'.st # "run" /\ fault' = "none") => ReturnedEmpty']_vars
    /\ []((parseRet.st # "run" /\ fault = "none" /\ ~elementLog.vendor) => ReturnedEmpty)

\* a document without any pulse, cut or image element was parsed
C27_Witness ==
    /\ ReturnedEmpty /\ fault = "none"
    /\ ~elementLog.vendor /\ ~elementLog.foreign

\* the bytes the chunks of an image element decode to, in document order
RECURSIVE DecodedChunks(_)
DecodedChunks(chunks) ==
    IF chunks = <<>> THEN <<>>
    ELSE LET content == TrimSpace(Head(chunks))
         IN  (IF content = <<>> THEN <<>> ELSE DecodeString(content).bytes)
                 \o DecodedChunks(Tail(chunks))

\* Parse appends an Image instruction in this step
ImageInstructionAdded ==
    /\ Len(epos'.Instructions) = Len(epos.Instructions) + 1
    /\ epos'.Instructions[Len(epos'.Instructions)].Type = "InstImage"

\* C28: the data of an Image instruction is the concatenation, in document
\* order, of the decoded bytes of the character-data chunks received while
\* the image element was open; a chunk of white space only adds nothing and
\* a later chunk never replaces an earlier one.
C28_ImageDataConcatenated ==
    /\ []((parseRet.st = "run" /\ inImage)
            => currentImage.Data = DecodedChunks(imageLog.chunks))
    /\ [][ImageInstructionAdded
            => epos'.Instructions[Len(epos'.Instructions)].Image.Data
                   = DecodedChunks(imageLog.chunks)]_vars

\* three chunks arrived in an open image element, the second of white space
C28_Witness ==
    /\ parseRet.st = "run" /\ inImage
    /\ imageLog.chunks = << <<"A", "Q", "=", "=">>, <<" ", "\n", " ">>,
                            <<"\n", " ", "A", "\n", "g", "=", "=", " ">> >>
    /\ currentImage.Data = <<1, 2>>

\* the values the open image element gives the attribute of this name
ValuesOf(local) ==
    {imageLog.attrs[k].Value : k \in {j \in 1..Len(imageLog.attrs) :
                                          imageLog.attrs[j].Local = local}}

\* the value is an optional sign and decimal digits, and nothing else
IsDecimalInteger(value) ==
    LET signed == value # <<>> /\ Head(value) \in {"+", "-"}
        body == IF signed THEN Tail(value) ELSE value
    IN  body # <<>> /\ \A k \in 1..Len(body) : IsDigit(body[k])

\* no decimal digit follows the leading blanks and the optional sign
NoLeadingDigit(value) ==
    LET t == SkipBlanks(value)
        body == IF t # <<>> /\ Head(t) \in {"+", "-"} THEN Tail(t) ELSE t
    IN  body = <<>> \/ ~IsDigit(Head(body))

\* C29 (as claimed): a width or height attribute that is missing or is not a
\* decimal integer leaves 0 in that dimension of the open image.
C29_NonIntegerGetsZero ==
    (parseRet.st = "run" /\ inImage) =>
        /\ (\A v \in ValuesOf("width") : ~IsDecimalInteger(v)) => currentImage.Width = 0
        /\ (\A v \in ValuesOf("height") : ~IsDecimalInteger(v)) => currentImage.Height = 0

\* C29 (amended): a width or height attribute that is missing, or whose value
\* has no decimal digit after its leading blanks and optional sign, leaves 0
\* in that dimension and is no error; a value that goes on after a leading
\* decimal integer (" 1px") gives that integer (1).  With both dimensions so
\* left at 0 and no character data, the element's end appends one Image
\* instruction of dimensions 0 x 0 and empty data.
C29_UnscannableGetsZero ==
    /\ []((parseRet.st = "run" /\ inImage) =>
            /\ (\A v \in ValuesOf("width") : NoLeadingDigit(v)) => currentImage.Width = 0
            /\ (\A v \in ValuesOf("height") : NoLeadingDigit(v)) => currentImage.Height = 0
            /\ ValuesOf("height") = {<<" ", "1", "p", "x">>} => currentImage.Height = 1)
    /\ [][(/\ ImageCloses
           /\ \A v \in ValuesOf("width") \cup ValuesOf("height") : NoLeadingDigit(v)
           /\ imageLog.chunks = <<>>)
            => (/\ parseRet'.st = "run"
                /\ epos'.Instructions =
                       Append(epos.Instructions,
                              [Type |-> "InstImage", Image |-> ImageDecoded]))]_vars

\* <image></image> alone was parsed: one Image instruction, 0 x 0, no data
C29_Witness ==
    /\ parseRet.st = "ok" /\ parseRet.err = "nil"
    /\ parseRet.Instructions = <<[Type |-> "InstImage", Image |-> ImageDecoded]>>

\* C30: when a CORS whitelist is configured, a request whose origin is not
\* in the whitelist receives a 403 Forbidden response; with no whitelist
\* configured every origin is allowed.
C30_WhitelistEnforced ==
    /\ (/\ exchange.st \in {"answered", "refused"}
        /\ server.argv.allowOrigins.given
        /\ exchange.origin \notin server.argv.allowOrigins.list)
         => exchange.status = 403
    /\ (exchange.st = "answered" /\ ~server.argv.allowOrigins.given)
         => (exchange.status # 403 /\ exchange.allowOrigin = "*")

(***************************************************************************)
(* Claims about the writers' mutex.                                        *)
(***************************************************************************)
\* the goroutine is past mu.Lock() and before the return of its method
InSection(p) == call[p].at \in {"check", "io", "assign", "unlock"}

\* C31: under any interleaving of concurrent callers at most one of Open,
\* Close and WriteRaw is at work on the writer's handle: a method is between
\* its Lock and its Unlock only while its goroutine holds the mutex, and the
\* handle and the device change only in a step of the holder.
C31_OneAtATime ==
    /\ [](\A p \in Procs : InSection(p) => mu = p)
    /\ [](Cardinality({p \in Procs : InSection(p)}) <= 1)
    /\ [][(writer' # writer \/ device' # device)
            => (mu # 0 /\ mu' = mu /\ call[mu].at \in {"io", "assign"})]_vars

\* one goroutine is at work on the handle while the other waits for the mutex
C31_Witness ==
    /\ call[1].at = "io" /\ call[1].m = "WriteRaw" /\ mu = 1
    /\ call[2].at = "lock" /\ call[2].m = "Close"

(***************************************************************************)
(* Claims about the writers' two states.                                   *)
(***************************************************************************)
\* the method of goroutine p returns in this step
MethodReturn(p, m) ==
    call[p].m = m /\ call[p].at = "unlock" /\ call'[p].at = "idle"

\* C32: a writer is always Disconnected (no handle) or Connected (a handle,
\* open at the device); it becomes Connected only in an Open whose dial
\* succeeded; an Open that failed returns with the writer Disconnected, no
\* step of a WriteRaw changes the state, and Close returns with the writer
\* Disconnected, also when the close of the handle reported an error.
C32_TwoStates ==
    /\ [](writer \in {"nil", "open"})
    /\ [](mu = 0 => (writer = "open" <=> device.handles = 1))
    /\ [][(writer' = "open" /\ writer # "open")
            => \E p \in Procs : /\ call[p].m = "Open" /\ call[p].at = "assign"
                                /\ call[p].ret = "nil" /\ call'[p].at = "unlock"]_vars
    /\ [][\A p \in Procs :
            /\ (MethodReturn(p, "Open") /\ call[p].ret # "nil") => writer' = "nil"
            /\ (MethodReturn(p, "Open") /\ call[p].ret = "nil") => writer' = "open"
            /\ MethodReturn(p, "Close") => writer' = "nil"
            /\ (call[p].m = "WriteRaw" /\ call'[p] # call[p] /\ call[p].at # "idle")
                 => writer' = writer]_vars

\* a Close whose close of the handle failed has returned its error, and the
\* writer is Disconnected
C32_Witness ==
    /\ call[1] = [m |-> "Close", at |-> "idle", ret |-> "close"]
    /\ call[2] = NoCall
    /\ writer = "nil" /\ device.closes = 1 /\ device.handles = 0

(***************************************************************************)
(* Claims about the end of the Printer's operations.                       *)
(***************************************************************************)
\* a call of PrintGraphics, KickDrawer or Cut is in progress or has ended
Called(p) == op[p] \in {"PrintGraphics", "KickDrawer", "Cut"} /\ pc[p] # "idle"

\* C33: every call of PrintGraphics, KickDrawer and Cut eventually returns,
\* with success or with an error, when every call of the transport returns:
\* the call does not end in any other way, it makes no more attempts than
\* its budget, and it reaches its return.
C33_EveryCallReturns ==
    /\ [](\A p \in Procs : Called(p) => pc[p] # "panic")
    /\ [](\A p \in Procs : Called(p) => fnCalls[p] <= maxRetries[p])
    /\ \A p \in Procs : Called(p) ~> (pc[p] = "ret")

(***************************************************************************)
(* Claims about the images of one document.                                *)
(***************************************************************************)
\* the start tag of a vendor image element is read in this step
ImageStarts ==
    /\ parseRet'.st = "run"
    /\ Len(xmlStack') = Len(xmlStack) + 1
    /\ xmlStack'[Len(xmlStack')].Local = "image"
    /\ ContainsEpsonPos(xmlStack'[Len(xmlStack')].Space)

\* C34: each Image instruction holds only data decoded from the character
\* data between its own start and end tags: an image starts with no data,
\* its instruction gets the data of its own chunks, the close of an image
\* clears the accumulation state and leaves the earlier instructions as they
\* are, and outside an open image nothing is accumulated.
C34_ImagesIndependent ==
    /\ [](~inImage => currentImage = NilImage)
    /\ [][ImageStarts => (inImage' /\ ~currentImage'.nil /\ currentImage'.Data = <<>>)]_vars
    /\ [][ImageInstructionAdded
            => (/\ epos'.Instructions[Len(epos'.Instructions)].Image.Data
                       = DecodedChunks(imageLog.chunks)
                /\ SubSeq(epos'.Instructions, 1, Len(epos.Instructions)) = epos.Instructions
                /\ ~inImage' /\ currentImage' = NilImage)]_vars
    /\ [][(~inImage /\ ~ImageStarts /\ parseRet'.st = "run")
            => (currentImage' = NilImage /\ epos'.Instructions
                    \in {epos.Instructions,
                         Append(epos.Instructions, [Type |-> "InstPulse", Image |-> NilImage]),
                         Append(epos.Instructions, [Type |-> "InstCut", Image |-> NilImage])})]_vars

\* a document with an image of one byte and then an image without data was
\* parsed
C34_Witness ==
    /\ parseRet.st = "ok" /\ Len(parseRet.Instructions) = 2
    /\ parseRet.Instructions[1].Type = "InstImage"
    /\ parseRet.Instructions[1].Image.Data = <<1>>
    /\ parseRet.Instructions[2].Type = "InstImage"
    /\ parseRet.Instructions[2].Image.Data = <<>>

(***************************************************************************)
(* Claims about a request whose document does not parse.                   *)
(***************************************************************************)
\* C35: for a request whose document fails to parse (a syntax error, invalid
\* base64 or an image of the wrong size, anywhere in the document) the
\* answer is 400, no instruction of the document is executed and nothing is
\* written to the transport, whatever valid elements precede the fault:
\* while Parse runs and after it has failed the handler leaves the Printer
\* and its transport alone.
C35_NoPartialExecution ==
    /\ []((exchange.st = "answered" /\ fault # "none")
            => (/\ exchange.status = 400
                /\ req[1] = NoReq /\ pc[1] = "idle"
                /\ fnCalls[1] = 0 /\ writeCalls[1] = 0
                /\ writer = "open"))
    /\ [][(exchange.st = "open" /\ (parseRet.st \in {"run", "err"} \/ fault # "none"))
            => (/\ req' = req /\ pc' = pc /\ op' = op /\ buf' = buf
                /\ writer' = writer /\ fnCalls' = fnCalls /\ writeCalls' = writeCalls
                /\ attemptLog' = attemptLog)]_vars

\* a document with a pulse and then an image of the wrong size was refused
C35_Witness ==
    /\ exchange.st = "answered" /\ exchange.status = 400
    /\ fault = "size" /\ recognized = <<"InstPulse">>
    /\ req[1] = NoReq /\ writeCalls[1] = 0

(***************************************************************************)
(* The connection state an operation leaves behind.                        *)
(***************************************************************************)
PrinterOps == {"PrintGraphics", "KickDrawer", "Cut"}

\* p's operation on a real writer has returned after at least one attempt
Finished(p) == pc[p] = "ret" /\ op[p] \in PrinterOps /\ RealWriter /\ maxRetries[p] >= 1

\* C36: with a single caller, an operation (PrintGraphics, KickDrawer, Cut) that
\* returns success leaves the transport connected; one that returns an error after
\* all its attempts leaves it disconnected: its last step was a Close, with no Open
\* after it; and the transport stays as it is from the return of an operation to the
\* start of the next one.
C36_StateAfterOperation ==
    /\ []((Finished(1) /\ err[1] = NoErr) => writer = "open")
    /\ []((Finished(1) /\ err[1] # NoErr)
            => (/\ fnCalls[1] = maxRetries[1]
                /\ writer = "nil"
                /\ closeCalls[1] = maxRetries[1]
                /\ openCalls[1] = maxRetries[1] - 1))
    /\ [][(pc[1] \in {"idle", "ret"}) => writer' = writer]_vars

\* PrintGraphics has failed three times on a writer whose Close fails too
C36_Witness ==
    /\ Finished(1) /\ op[1] = "PrintGraphics" /\ err[1] # NoErr
    /\ fnCalls[1] = 3 /\ closeErrSeen[1] /\ writer = "nil"

\* p's operation on a real writer is inside withRetry
Retrying(p) == op[p] \in PrinterOps /\ RealWriter /\ maxRetries[p] >= 1 /\ pc[p] # "idle"

\* the device has refused the write of the attempt that just failed, or an Open
\* of this call
DeviceRefused(p) == lastFn[p].err.kind = "write" \/ openErrSeen[p]

\* C37: an operation on a real writer fails an attempt only when the device refuses
\* something, except for the first attempt on a disconnected transport.  On a
\* connected transport an attempt fails only with the device's write error; from the
\* second attempt on an attempt fails only after the device refused its write or an
\* Open of this call; and an operation returns an error only then.  So with a device
\* that accepts every Open and every write, the operation returns success after at
\* most 2 attempts, whatever the connection state it started on.
C37_RecoversWithinTwoAttempts ==
    /\ [][(Retrying(1) /\ pc[1] \in {"fn", "feed"} /\ pc'[1] = "close" /\ writer = "open")
            => lastFn'[1].err.kind = "write"]_vars
    /\ []((Retrying(1) /\ pc[1] = "close" /\ fnCalls[1] >= 2) => DeviceRefused(1))
    /\ []((Finished(1) /\ err[1] # NoErr) => DeviceRefused(1))
    /\ []((Finished(1) /\ err[1] = NoErr /\ fnFails[1] = 0) => fnCalls[1] = 1)

\* a Cut that started on a disconnected transport: the first attempt was refused for
\* want of a connection, the reopening and both writes of the second one succeeded
C37_Witness ==
    /\ Finished(1) /\ op[1] = "Cut" /\ err[1] = NoErr
    /\ fnCalls[1] = 2 /\ fnFails[1] = 1 /\ writeCalls[1] = 3 /\ okWrites[1] = 2
    /\ openCalls[1] = 1 /\ ~openErrSeen[1] /\ ~closeErrSeen[1]

\* the first attempt of an operation that started on a disconnected transport
C37_WitnessDisconnectedStart ==
    /\ Retrying(1) /\ pc[1] = "close" /\ fnCalls[1] = 1
    /\ lastFn[1].err.kind = "noconn" /\ writer = "nil"

(***************************************************************************)
(* A Close from the shutdown handler's goroutine while another goroutine's *)
(* retry loop calls WriteRaw, Close and Open.                              *)
(***************************************************************************)
\* p's method is about to write on, or to close, the handle
OnHandle(p) == call[p].at = "io" /\ call[p].m \in {"WriteRaw", "Close"}

\* C38: however the calls of two goroutines on the writer interleave, a write or a
\* close is only ever made on a handle that is present and open, no call panics, at
\* most one handle is open, and a WriteRaw that finds the writer without a handle
\* returns the no-connection error without asking anything of the device.
C38_HandleNeverMisused ==
    /\ [](\A p \in Procs : OnHandle(p) => (writer = "open" /\ device.handles = 1))
    /\ [](\A p \in Procs : call[p].ret # "panic")
    /\ [](device.handles \in {0, 1})
    /\ [][\A p \in Procs :
            (call[p].m = "WriteRaw" /\ call[p].at = "check" /\ call'[p].at # "check"
                /\ writer = "nil")
              => (call'[p].ret = "noconn" /\ call'[p].at = "unlock" /\ device' = device)]_vars

\* goroutine 2's Close has closed the handle goroutine 1's Open had opened, and the
\* WriteRaw goroutine 1 made next found no handle
C38_Witness ==
    /\ call[2] = [m |-> "Close", at |-> "idle", ret |-> "nil"]
    /\ call[1] = [m |-> "WriteRaw", at |-> "unlock", ret |-> "noconn"]
    /\ device.dials = 1 /\ device.closes = 1 /\ device.writes = 0 /\ writer = "nil"

(***************************************************************************)
(* The handler's PrintGraphics calls on the images Parse returns.          *)
(***************************************************************************)
\* papers up to five bytes per row
WideReceiptWidths == ReceiptWidths \cup {40}

\* what an image element can declare and carry: the images above, negative and
\* zero sizes, and sizes whose product does not fit an int
DeclaredImages ==
    Images \cup { Image(-9, -2, <<1, 2>>), Image(-8, 0, <<>>), Image(4, -3, <<>>),
                  Image(0, 2, <<>>), Image(32, 2, <<1, 2, 3, 4, 5, 6, 7, 8>>),
                  Image(32, 1073741824, <<>>), Image(24, 1431655766, <<1, 2>>) }

\* Parse appends the image element's instruction: its size check passes
ParseReturns(im) ==
    ~SizeMismatch([nil |-> FALSE, Width |-> im.width, Height |-> im.height,
                   Data |-> im.data])

ReturnedImages == {im \in DeclaredImages : ParseReturns(im)}

\* the handler has the document of an image element from Parse
HandleImage(p) ==
    /\ Free(p)
    /\ \E im \in ReturnedImages :
          req' = [req EXCEPT ![p] = [st |-> "run", doc |-> <<[type |-> "image", image |-> im]>>,
                                     idx |-> 1, executed |-> <<>>, outcomes |-> <<>>]]
    /\ UNCHANGED <<receipt_width, connection, writer, pc, op, maxRetries, i, err, result, buf>>
    /\ UNCHANGED <<ghostVars, parserVars, httpVars, lockVars>>

InitEncode ==
    /\ receipt_width \in WideReceiptWidths
    /\ connection = Writer
    /\ writer = "open"
    /\ pc = [p \in Procs |-> "idle"]
    /\ op = [p \in Procs |-> "none"]
    /\ maxRetries = [p \in Procs |-> 0]
    /\ i = [p \in Procs |-> 0]
    /\ err = [p \in Procs |-> NoErr]
    /\ result = [p \in Procs |-> 0]
    /\ buf = [p \in Procs |-> <<>>]
    /\ req = [p \in Procs |-> NoReq]
    /\ fnCalls = [p \in Procs |-> 0]
    /\ fnFails = [p \in Procs |-> 0]
    /\ lastFn = [p \in Procs |-> [err |-> NoErr, val |-> 0]]
    /\ closeCalls = [p \in Procs |-> 0]
    /\ openCalls = [p \in Procs |-> 0]
    /\ closeErrSeen = [p \in Procs |-> FALSE]
    /\ openErrSeen = [p \in Procs |-> FALSE]
    /\ attemptLog = [p \in Procs |-> <<>>]
    /\ writeCalls = [p \in Procs |-> 0]
    /\ okWrites = [p \in Procs |-> 0]
    /\ touched = [p \in Procs |-> FALSE]
    /\ interrupted = [p \in Procs |-> FALSE]
    /\ interleaved = FALSE
    /\ recording = TRUE
    /\ args = [p \in Procs |-> NoArgs]
    /\ device = FreshDevice
    /\ server = ServerOff
    /\ exchange = NoExchange
    /\ mu = 0
    /\ call = [p \in Procs |-> NoCall]
    /\ ParseEntry

NextEncode ==
    \/ HandleImage(1) \/ Dispatch(1)
    \/ PrintGraphicsFn(1) \/ RetryClose(1) \/ RetryOpen(1)
    \/ AfterInstruction(1) \/ Respond(1) \/ HandlerReturn(1)

SpecEncode == InitEncode /\ [][NextEncode]_vars

\* the errors of PrintGraphics' and center's size checks
ValidationErrors == {"short", "center_short", "center_row"}

\* C39: PrintGraphics called on an Image instruction Parse returned never returns a
\* validation error, never fails a bound check of center and never slices out of
\* range: it enters withRetry with its 3 attempts, and when it returns it has written
\* to the transport.
C39_ParsedImagesReachTheWrite ==
    \A p \in Procs :
        (op[p] = "PrintGraphics" /\ pc[p] # "idle")
          => /\ pc[p] # "panic"
             /\ err[p].kind \notin ValidationErrors
             /\ maxRetries[p] = PrintGraphicsRetries
             /\ pc[p] = "ret" => writeCalls[p] >= 1

\* |x| < 65536
Below65536(x) == x > -65536 /\ x < 65536

\* C40: the raster command PrintGraphics hands to withRetry for an Image instruction
\* Parse returned, with width/8 and height below 65536 in absolute value, holds as
\* many payload bytes between its 8-byte header and its 3-byte feed suffix as the
\* product of the header's 16-bit width field and 16-bit height field.
C40_HeaderMatchesPayload ==
    \A p \in Procs :
        (Encoded(p) /\ Below65536(GoDiv(args[p].w, 8)) /\ Below65536(args[p].h))
          => Len(Payload(buf[p])) = WidthField(buf[p]) * HeightField(buf[p])

====
